---- MODULE Spec2Model ----
(***************************************************************************)
(* Model of the RAG backend of aws-serverless-next: the document chunker   *)
(* (services/chunker), the Pinecone gateway (services/pinecone), the       *)
(* answer composer (services/llm) and the ingest / ask Lambda handlers.    *)
(*                                                                         *)
(* A JavaScript string is a sequence of one-character strings, so that     *)
(* length, trim, slice and the two regular-expression splits are computed  *)
(* as the code computes them.                                              *)
(***************************************************************************)
EXTENDS Integers, Sequences, FiniteSets, TLC

VARIABLES
    ident,        \* chunkDocument: the docId and title arguments
    content,      \* chunkDocument: the content argument
    options,      \* chunkDocument: the options argument (a field is <<>> when absent)
    cpc,          \* chunkDocument: "call" | "returned" | "looping"
    chunks,       \* chunkDocument: the returned Chunk[]
    index,        \* the Pinecone index: a set of records [id, values, metadata]
    hpc,          \* the Lambda invocation: the await it is suspended at
    invoked,      \* which handler runs: "none" | "ingest" | "ask"
    documents,    \* ingest: the validated documents
    docIx,        \* ingest: position of `doc` in the for-of loop (1-based)
    docChunks,    \* ingest: chunks of the current document
    embeddings,   \* embedTexts: the embeddings collected so far
    upserted,     \* upsertVectors: the loop variable i
    totalChunks,  \* ingest: totalChunks
    question,     \* ask: the validated question
    topK,         \* ask: the validated topK
    matches,      \* ask: <<>> before the query returned, then <<matches>>
    results,      \* ask: <<results>> once index.query has replied inside queryVectors,
                  \* until the handler's next step
    calls,        \* the requests sent to external services in this invocation
    response,     \* the APIGatewayProxyResultV2 returned by the invocation
    previous,     \* history: the last successful one-document ingest and the
                  \* record ids the index then held for that document
    fpc,          \* a direct call of a service function: "call" | "upsert" | "returned" | "threw"
    given,        \* the direct call: the function called and its arguments
    result,       \* the direct call: what it returned or threw
    pineconeClient,  \* services/pinecone: the cached client, <<>> for null
    pineconeIndex,   \* services/pinecone: the cached index handle, <<>> for null
    env,             \* process.env: PINECONE_API_KEY and PINECONE_INDEX
    built,           \* history: how many clients and index handles were constructed
    runs             \* concurrent ingest invocations: the state of each

chunkVars == <<ident, content, options, cpc, chunks>>
ingestVars == <<documents, docIx, docChunks, embeddings, upserted, totalChunks>>
askVars == <<question, topK, matches, results>>
handlerVars == <<index, hpc, invoked, ingestVars, askVars, calls, response, previous>>
clientVars == <<pineconeClient, pineconeIndex, env, built>>
serviceVars == <<fpc, given, result, clientVars, runs>>
vars == <<chunkVars, handlerVars, serviceVars>>

----------------------------------------------------------------------------
(* Bounds of the model *)

\* the longest content drawn from all strings over the alphabet
MaxLen == 5
\* the most words of a content drawn from the word-and-separator documents
MaxWords == 4
\* the largest maxChunkSize / minChunkSize passed explicitly in options
MaxOpt == 4

----------------------------------------------------------------------------
(* JavaScript strings *)

Whitespace == {" ", "\n"}
Terminators == {".", "!", "?"}

Min2(a, b) == IF a < b THEN a ELSE b
Max2(a, b) == IF a > b THEN a ELSE b

\* String.prototype.slice(start, end) with 0-based, possibly negative, indices
slice(s, start, end) ==
    LET len  == Len(s)
        from == IF start < 0 THEN Max2(len + start, 0) ELSE Min2(start, len)
        to   == IF end < 0 THEN Max2(len + end, 0) ELSE Min2(end, len)
    IN  IF from < to THEN SubSeq(s, from + 1, to) ELSE <<>>

RECURSIVE trimStart(_)
trimStart(s) ==
    IF s # <<>> /\ Head(s) \in Whitespace THEN trimStart(Tail(s)) ELSE s

RECURSIVE trimEnd(_)
trimEnd(s) ==
    IF s # <<>> /\ s[Len(s)] \in Whitespace
    THEN trimEnd(SubSeq(s, 1, Len(s) - 1))
    ELSE s

\* String.prototype.trim()
trim(s) == trimEnd(trimStart(s))

\* `${a} ${b}`
joinSpace(a, b) == a \o <<" ">> \o b

\* the 1-based position of the last character of the whitespace run that
\* starts at position i (i - 1 when s[i] is no whitespace)
RECURSIVE runEnd(_, _)
runEnd(s, i) ==
    IF i <= Len(s) /\ s[i] \in Whitespace THEN runEnd(s, i + 1) ELSE i - 1

\* the last position in lo..hi holding a newline, 0 when there is none
RECURSIVE lastNewline(_, _, _)
lastNewline(s, lo, hi) ==
    IF hi < lo THEN 0
    ELSE IF s[hi] = "\n" THEN hi
    ELSE lastNewline(s, lo, hi - 1)

\* the least member of a non-empty set of positions
least(ps) == CHOOSE p \in ps : \A q \in ps : p <= q

\* the first position from i on where /\n\s*\n/ matches, 0 when there is none:
\* a newline that is followed, after whitespace only, by another newline
nextBlankLine(s, i) ==
    LET ps == {p \in i..Len(s) :
                  s[p] = "\n" /\ lastNewline(s, p + 1, runEnd(s, p + 1)) > 0}
    IN  IF ps = {} THEN 0 ELSE least(ps)

\* s.split(/\n\s*\n/): the pieces of s from position start on. \s* being
\* greedy, a match runs to the last newline of its whitespace run.
RECURSIVE splitParagraphs(_, _)
splitParagraphs(s, start) ==
    LET p == nextBlankLine(s, start) IN
    IF p = 0 THEN <<SubSeq(s, start, Len(s))>>
    ELSE LET j == lastNewline(s, p + 1, runEnd(s, p + 1))
         IN  <<SubSeq(s, start, p - 1)>> \o splitParagraphs(s, j + 1)

\* the first position from i on where /(?<=[.!?])\s+/ matches, 0 when there
\* is none: a whitespace character that directly follows a terminator
nextSentenceBreak(s, i) ==
    LET ps == {p \in i..Len(s) :
                  p > 1 /\ s[p] \in Whitespace /\ s[p - 1] \in Terminators}
    IN  IF ps = {} THEN 0 ELSE least(ps)

\* s.split(/(?<=[.!?])\s+/): a match takes the whole whitespace run
RECURSIVE splitAfterTerminator(_, _)
splitAfterTerminator(s, start) ==
    LET p == nextSentenceBreak(s, start) IN
    IF p = 0 THEN <<SubSeq(s, start, Len(s))>>
    ELSE <<SubSeq(s, start, p - 1)>> \o splitAfterTerminator(s, runEnd(s, p) + 1)

\* sentences.filter((s) => s.trim().length > 0)
RECURSIVE filterNonBlank(_)
filterNonBlank(seq) ==
    IF seq = <<>> THEN <<>>
    ELSE (IF Len(trim(Head(seq))) > 0 THEN <<Head(seq)>> ELSE <<>>)
         \o filterNonBlank(Tail(seq))

\* .map((p) => p.trim()).filter((p) => p.length > 0)
RECURSIVE trimAndFilter(_)
trimAndFilter(seq) ==
    IF seq = <<>> THEN <<>>
    ELSE (IF Len(trim(Head(seq))) > 0 THEN <<trim(Head(seq))>> ELSE <<>>)
         \o trimAndFilter(Tail(seq))

----------------------------------------------------------------------------
(* services/chunker *)

DEFAULT_MAX_CHUNK_SIZE == 500
DEFAULT_MIN_CHUNK_SIZE == 100

splitIntoSentences(text) ==
    filterNonBlank(splitAfterTerminator(text, 1))

\* the hard split stepping one character too far after every slice
RECURSIVE hardSplitSkips(_, _, _, _)
hardSplitSkips(sentence, maxSize, i, steps) ==
    IF ~(i < Len(sentence)) THEN [terminates |-> TRUE, chunks |-> <<>>]
    ELSE IF steps > Len(sentence) THEN [terminates |-> FALSE, chunks |-> <<>>]
    ELSE LET rest == hardSplitSkips(sentence, maxSize, i + maxSize + 1, steps + 1)
         IN  [terminates |-> rest.terminates,
              chunks |-> <<trim(slice(sentence, i, i + maxSize))>> \o rest.chunks]

\* for (let i = 0; i < sentence.length; i += maxSize) chunks.push(slice.trim()):
\* the slices pushed from index i on, after `steps` iterations. The loop ends
\* within sentence.length iterations when i advances; once it has run longer
\* than that, i is not advancing (maxSize <= 0) and the loop never ends.
RECURSIVE hardSplit(_, _, _, _)
hardSplit(sentence, maxSize, i, steps) ==
    IF ~(i < Len(sentence)) THEN [terminates |-> TRUE, chunks |-> <<>>]
    ELSE IF steps > Len(sentence) THEN [terminates |-> FALSE, chunks |-> <<>>]
    ELSE LET rest == hardSplit(sentence, maxSize, i + maxSize, steps + 1)
         IN  [terminates |-> rest.terminates,
              chunks |-> <<trim(slice(sentence, i, i + maxSize))>> \o rest.chunks]

\* the body of `for (const sentence of sentences)` and what follows it:
\* the loop over sentences[k..], entered with the given chunks and currentChunk
RECURSIVE packSentences(_, _, _, _, _)
packSentences(sentences, k, out, currentChunk, maxSize) ==
    IF k > Len(sentences)
    THEN [terminates |-> TRUE,
          chunks |-> IF currentChunk # <<>> THEN Append(out, trim(currentChunk)) ELSE out]
    ELSE LET sentence == sentences[k] IN
         IF Len(sentence) > maxSize
         THEN LET flushed == IF currentChunk # <<>>
                             THEN Append(out, trim(currentChunk)) ELSE out
                  hard == hardSplit(sentence, maxSize, 0, 0)
              IN  IF hard.terminates
                  THEN packSentences(sentences, k + 1, flushed \o hard.chunks, <<>>, maxSize)
                  ELSE [terminates |-> FALSE, chunks |-> flushed]
         ELSE IF Len(currentChunk) + Len(sentence) + 1 > maxSize
         THEN packSentences(sentences, k + 1,
                            IF currentChunk # <<>>
                            THEN Append(out, trim(currentChunk)) ELSE out,
                            sentence, maxSize)
         ELSE packSentences(sentences, k + 1, out,
                            IF currentChunk # <<>>
                            THEN joinSpace(currentChunk, sentence) ELSE sentence,
                            maxSize)

splitLargeParagraph(paragraph, maxSize) ==
    IF Len(paragraph) <= maxSize
    THEN [terminates |-> TRUE, chunks |-> <<paragraph>>]
    ELSE packSentences(splitIntoSentences(paragraph), 1, <<>>, <<>>, maxSize)

\* mergeStep without the test of the combined length against maxSize
mergeStepNoMax(st, chunk, minSize, maxSize) ==
    IF st.currentChunk = <<>>
    THEN [merged |-> st.merged, currentChunk |-> chunk]
    ELSE IF Len(st.currentChunk) < minSize
    THEN [merged |-> st.merged, currentChunk |-> joinSpace(st.currentChunk, chunk)]
    ELSE [merged |-> Append(st.merged, st.currentChunk), currentChunk |-> chunk]

\* mergeStep that goes on joining while the accumulated chunk is at most
\* minSize long, not shorter than minSize
mergeStepJoinsAtMin(st, chunk, minSize, maxSize) ==
    IF st.currentChunk = <<>>
    THEN [merged |-> st.merged, currentChunk |-> chunk]
    ELSE IF Len(st.currentChunk) <= minSize
            /\ Len(joinSpace(st.currentChunk, chunk)) <= maxSize
    THEN [merged |-> st.merged, currentChunk |-> joinSpace(st.currentChunk, chunk)]
    ELSE [merged |-> Append(st.merged, st.currentChunk), currentChunk |-> chunk]

\* mergeStep without the test for an empty accumulated chunk
mergeStepKeepsEmpty(st, chunk, minSize, maxSize) ==
    IF Len(st.currentChunk) < minSize
    THEN LET combined == joinSpace(st.currentChunk, chunk)
         IN  IF Len(combined) <= maxSize
             THEN [merged |-> st.merged, currentChunk |-> combined]
             ELSE [merged |-> Append(st.merged, st.currentChunk), currentChunk |-> chunk]
    ELSE [merged |-> Append(st.merged, st.currentChunk), currentChunk |-> chunk]

\* one iteration of `for (const chunk of chunks)` in mergeSmallChunks, on the
\* loop state st = [merged, currentChunk]
mergeStep(st, chunk, minSize, maxSize) ==
    IF st.currentChunk = <<>>
    THEN [merged |-> st.merged, currentChunk |-> chunk]
    ELSE IF Len(st.currentChunk) < minSize
    THEN LET combined == joinSpace(st.currentChunk, chunk)
         IN  IF Len(combined) <= maxSize
             THEN [merged |-> st.merged, currentChunk |-> combined]
             ELSE [merged |-> Append(st.merged, st.currentChunk), currentChunk |-> chunk]
    ELSE [merged |-> Append(st.merged, st.currentChunk), currentChunk |-> chunk]

\* the loop state after the first k raw chunks
RECURSIVE mergeLoop(_, _, _, _)
mergeLoop(raw, k, minSize, maxSize) ==
    IF k = 0 THEN [merged |-> <<>>, currentChunk |-> <<>>]
    ELSE mergeStep(mergeLoop(raw, k - 1, minSize, maxSize), raw[k], minSize, maxSize)

\* mergeTail that never merges the trailing chunk backward
mergeTailNoBackward(st, minSize, maxSize) ==
    IF st.currentChunk = <<>> THEN st.merged
    ELSE Append(st.merged, st.currentChunk)

\* `if (currentChunk) { ... }` after the loop of mergeSmallChunks
mergeTail(st, minSize, maxSize) ==
    IF st.currentChunk = <<>> THEN st.merged
    ELSE IF Len(st.currentChunk) < minSize /\ Len(st.merged) > 0
    THEN LET lastMerged == st.merged[Len(st.merged)]
             combined == joinSpace(lastMerged, st.currentChunk)
         IN  IF Len(combined) <= maxSize
             THEN [st.merged EXCEPT ![Len(st.merged)] = combined]
             ELSE Append(st.merged, st.currentChunk)
    ELSE Append(st.merged, st.currentChunk)

\* mergeSmallChunks that loses the chunks when the loop emitted none
mergeSmallChunksNoFlush(raw, minSize, maxSize) ==
    IF Len(raw) <= 1 THEN raw
    ELSE LET st == mergeLoop(raw, Len(raw), minSize, maxSize)
         IN  IF st.merged = <<>> THEN <<>> ELSE mergeTail(st, minSize, maxSize)

mergeSmallChunks(raw, minSize, maxSize) ==
    IF Len(raw) <= 1 THEN raw
    ELSE mergeTail(mergeLoop(raw, Len(raw), minSize, maxSize), minSize, maxSize)

\* options?.field ?? dflt
orDefault(opt, dflt) == IF opt = <<>> THEN dflt ELSE opt[1]

\* trimmedContent.split(/\n\s*\n/).map((p) => p.trim()).filter((p) => p.length > 0)
paragraphsOf(trimmedContent) ==
    trimAndFilter(splitParagraphs(trimmedContent, 1))

\* the loop `for (const paragraph of paragraphs)` of chunkDocument over
\* paragraphs[k..], entered with the given rawChunks
RECURSIVE rawChunksFrom(_, _, _, _)
rawChunksFrom(paragraphs, k, rawChunks, maxSize) ==
    IF k > Len(paragraphs) THEN [terminates |-> TRUE, chunks |-> rawChunks]
    ELSE LET sub == splitLargeParagraph(paragraphs[k], maxSize)
         IN  IF sub.terminates
             THEN rawChunksFrom(paragraphs, k + 1, rawChunks \o sub.chunks, maxSize)
             ELSE [terminates |-> FALSE, chunks |-> rawChunks]

\* the rawChunks of chunkDocument just before the merge pass
rawChunksOf(text, maxSize) ==
    rawChunksFrom(paragraphsOf(trim(text)), 1, <<>>, maxSize)

\* chunk ids numbered from 1
chunkIdOneBased(docId, position) == <<docId, "#chunk-", position + 1>>

\* `${docId}#chunk-${index}` with the 0-based index as position. The id is kept as its three
\* parts: the string ends in the decimal index after the last "#chunk-", so two
\* ids are equal exactly when their parts are.
chunkIdOf(docId, position) == <<docId, "#chunk-", position>>

\* chunkDocument(docId, title, content, options): [terminates, chunks]; when
\* the call never returns, terminates is FALSE
chunkDocument(docId, title, text, opts) ==
    LET maxSize == orDefault(opts.maxChunkSize, DEFAULT_MAX_CHUNK_SIZE)
        minSize == orDefault(opts.minChunkSize, DEFAULT_MIN_CHUNK_SIZE)
        trimmedContent == trim(text)
    IN  IF trimmedContent = <<>> THEN [terminates |-> TRUE, chunks |-> <<>>]
        ELSE LET raw == rawChunksOf(text, maxSize) IN
             IF ~raw.terminates THEN [terminates |-> FALSE, chunks |-> <<>>]
             ELSE LET mergedChunks == mergeSmallChunks(raw.chunks, minSize, maxSize)
                  IN  [terminates |-> TRUE,
                       chunks |-> [n \in 1..Len(mergedChunks) |->
                                     [chunkId |-> chunkIdOf(docId, n - 1),
                                      docId |-> docId,
                                      title |-> title,
                                      text |-> mergedChunks[n]]]]

----------------------------------------------------------------------------
(* The calls of chunkDocument that are explored *)

Alphabet == {"a", ".", " ", "\n"}

\* every string over the alphabet of length at most n
RECURSIVE StringsUpTo(_)
StringsUpTo(n) ==
    IF n = 0 THEN {<<>>}
    ELSE LET shorter == StringsUpTo(n - 1)
         IN  shorter \cup {Append(s, c) : s \in shorter, c \in Alphabet}

Words == {<<"a">>, <<"a", "a">>}
BlankLine == <<"\n", "\n">>
\* a run of blanks wider than every explicit maxChunkSize
WideBlank == [n \in 1..(MaxOpt + 2) |-> " "]
Separators == {BlankLine, WideBlank}

\* words separated by blank lines or wide blanks, at most n words
RECURSIVE DocumentsUpTo(_)
DocumentsUpTo(n) ==
    IF n <= 1 THEN Words
    ELSE LET shorter == DocumentsUpTo(n - 1)
         IN  shorter \cup {d \o sep \o w : d \in shorter, sep \in Separators, w \in Words}

\* "Para 1.\n\nPara 2." of the chunker's tests, in the alphabet
TwoParagraphs == <<"a", ".", "\n", "\n", "a", ".">>

Contents == StringsUpTo(MaxLen) \cup DocumentsUpTo(MaxWords) \cup {TwoParagraphs}

OptValues == {<<>>} \cup {<<n>> : n \in 0..MaxOpt}
Options == [maxChunkSize : OptValues, minChunkSize : OptValues]

Idents == {[docId |-> "doc-1", title |-> "T"]}

\* no response yet
NoResponse == [statusCode |-> 0, body |-> [error |-> <<>>]]

\* a cold Lambda container in front of an empty index
ColdStart ==
    /\ index = {}
    /\ hpc = "idle"
    /\ invoked = "none"
    /\ documents = <<>>
    /\ docIx = 0
    /\ docChunks = <<>>
    /\ embeddings = <<>>
    /\ upserted = 0
    /\ totalChunks = 0
    /\ question = <<>>
    /\ topK = 0
    /\ matches = <<>>
    /\ results = <<>>
    /\ calls = <<>>
    /\ response = NoResponse
    /\ previous = <<>>

\* no direct call of a service function
\* a process that has not touched Pinecone, both variables configured
ColdClient ==
    /\ pineconeClient = <<>>
    /\ pineconeIndex = <<>>
    /\ env = [apiKey |-> << <<"k">> >>, index |-> << <<"i">> >>]
    /\ built = [clients |-> 0, indexes |-> 0]

NoServiceCall ==
    /\ fpc = "none"
    /\ given = <<>>
    /\ result = <<>>
    /\ ColdClient
    /\ runs = <<>>

ChunkInit ==
    /\ ident \in Idents
    /\ content \in Contents
    /\ options \in Options
    /\ cpc = "call"
    /\ chunks = <<>>
    /\ ColdStart
    /\ NoServiceCall

\* the call chunkDocument(docId, title, content, options)
ChunkDocument ==
    /\ cpc = "call"
    /\ LET r == chunkDocument(ident.docId, ident.title, content, options)
       IN  /\ cpc' = IF r.terminates THEN "returned" ELSE "looping"
           /\ chunks' = r.chunks
    /\ UNCHANGED <<ident, content, options, handlerVars, serviceVars>>

ChunkNext == ChunkDocument

ChunkSpec == ChunkInit /\ [][ChunkNext]_vars

----------------------------------------------------------------------------
(* Claims about chunkDocument, checked under ChunkSpec *)

maxSizeArg == orDefault(options.maxChunkSize, DEFAULT_MAX_CHUNK_SIZE)
minSizeArg == orDefault(options.minChunkSize, DEFAULT_MIN_CHUNK_SIZE)

\* the raw chunks of the call, before the merge pass
rawOfCall == rawChunksOf(content, maxSizeArg).chunks
\* the texts of the returned chunks
textsOfCall == [n \in 1..Len(chunks) |-> chunks[n].text]
\* the paragraphs of the content
paragraphsOfCall == paragraphsOf(trim(content))

isBlank(s) == \A n \in 1..Len(s) : s[n] \in Whitespace

\* seq[1] seq[2] ... joined by single spaces
RECURSIVE joinAll(_)
joinAll(seq) ==
    IF seq = <<>> THEN <<>>
    ELSE IF Len(seq) = 1 THEN seq[1]
    ELSE joinSpace(seq[1], joinAll(Tail(seq)))

\* C4: with maxChunkSize >= 1 no returned chunk is longer than maxChunkSize,
\* and no raw chunk produced by sentence packing or hard-splitting is either
\* (a hard-split slice is at most maxChunkSize long, so the exception the
\* claim allows for hard-split chunks is never needed).
C4_ChunksWithinMax ==
    (cpc = "returned" /\ maxSizeArg >= 1) =>
        LET raw == rawOfCall
        IN  /\ \A n \in 1..Len(chunks) : Len(chunks[n].text) <= maxSizeArg
            /\ \A n \in 1..Len(raw) : Len(raw[n]) <= maxSizeArg

\* C4 witness: a paragraph longer than maxChunkSize was split, and the merge
\* pass joined two raw chunks into a chunk exactly maxChunkSize long
C4_Witness ==
    /\ cpc = "returned"
    /\ maxSizeArg >= 1
    /\ \E n \in 1..Len(paragraphsOfCall) : Len(paragraphsOfCall[n]) > maxSizeArg
    /\ \A n \in 1..Len(rawOfCall) : rawOfCall[n] # <<>>
    /\ \E n \in 1..Len(chunks), k \in 1..(Len(rawOfCall) - 1) :
          /\ chunks[n].text = joinSpace(rawOfCall[k], rawOfCall[k + 1])
          /\ Len(chunks[n].text) = maxSizeArg

\* C5: raising minChunkSize, all else equal, never increases the number of
\* chunks returned.
C5_RaisingMinNeverAddsChunks ==
    (cpc = "returned" /\ maxSizeArg >= 1) =>
        \A m2 \in 0..(MaxOpt + 1) :
            m2 >= minSizeArg =>
                Len(chunkDocument(ident.docId, ident.title, content,
                                  [options EXCEPT !.minChunkSize = <<m2>>]).chunks)
                    <= Len(chunks)

\* the merge pass as C6 states it: a raw chunk shorter than minSize is joined
\* onto the chunk before it when the combination fits, and is its own chunk
\* otherwise
RECURSIVE mergeShortIncoming(_, _, _, _, _)
mergeShortIncoming(raw, k, out, minSize, maxSize) ==
    IF k > Len(raw) THEN out
    ELSE IF out # <<>> /\ Len(raw[k]) < minSize
            /\ Len(joinSpace(out[Len(out)], raw[k])) <= maxSize
    THEN mergeShortIncoming(raw, k + 1,
             [out EXCEPT ![Len(out)] = joinSpace(out[Len(out)], raw[k])],
             minSize, maxSize)
    ELSE mergeShortIncoming(raw, k + 1, Append(out, raw[k]), minSize, maxSize)

\* C6 as stated: every raw chunk shorter than minChunkSize is joined onto the
\* chunk accumulated before it whenever the combination fits, and is emitted
\* as its own chunk only when it does not fit (stated here for the calls in
\* which no raw chunk is the empty string).
C6_ShortChunkJoinsBackward ==
    (cpc = "returned" /\ \A n \in 1..Len(rawOfCall) : rawOfCall[n] # <<>>) =>
        textsOfCall = mergeShortIncoming(rawOfCall, 1, <<>>, minSizeArg, maxSizeArg)

\* the merge pass as amended: the accumulated chunk acc, when shorter than
\* minSize, takes the next raw chunk if the combination fits; otherwise it is
\* emitted and the next raw chunk starts a new accumulation; an empty
\* accumulated chunk is replaced without being emitted; at the end a short
\* accumulated chunk merges backward into the last emitted chunk if it fits
RECURSIVE mergeShortAccumulated(_, _, _, _, _, _)
mergeShortAccumulated(raw, k, out, acc, minSize, maxSize) ==
    IF k > Len(raw)
    THEN IF acc = <<>> THEN out
         ELSE IF /\ Len(acc) < minSize
                 /\ out # <<>>
                 /\ Len(out[Len(out)]) + 1 + Len(acc) <= maxSize
         THEN SubSeq(out, 1, Len(out) - 1) \o <<out[Len(out)] \o <<" ">> \o acc>>
         ELSE out \o <<acc>>
    ELSE IF acc = <<>>
    THEN mergeShortAccumulated(raw, k + 1, out, raw[k], minSize, maxSize)
    ELSE IF Len(acc) < minSize /\ Len(acc) + 1 + Len(raw[k]) <= maxSize
    THEN mergeShortAccumulated(raw, k + 1, out, acc \o <<" ">> \o raw[k], minSize, maxSize)
    ELSE mergeShortAccumulated(raw, k + 1, out \o <<acc>>, raw[k], minSize, maxSize)

\* C6 amended: whenever the chunk accumulated so far is shorter than
\* minChunkSize, the next raw chunk, of any length, is joined onto it with a
\* single space if the combination is within maxChunkSize; otherwise the
\* accumulated chunk is emitted and the next raw chunk starts a new
\* accumulation; a trailing short accumulated chunk merges backward into the
\* last emitted chunk under the same size test.
C6_ShortAccumulatedTakesNext ==
    cpc = "returned" =>
        textsOfCall = mergeShortAccumulated(rawOfCall, 1, <<>>, <<>>, minSizeArg, maxSizeArg)

\* C6 witness: of three raw chunks the second is short and would fit onto the
\* first, which is not short; it is joined with the third instead
C6_Witness ==
    /\ cpc = "returned"
    /\ Len(rawOfCall) = 3
    /\ \A n \in 1..3 : rawOfCall[n] # <<>>
    /\ Len(rawOfCall[1]) >= minSizeArg
    /\ Len(rawOfCall[2]) < minSizeArg
    /\ Len(rawOfCall[1]) + 1 + Len(rawOfCall[2]) <= maxSizeArg
    /\ textsOfCall = <<rawOfCall[1], joinSpace(rawOfCall[2], rawOfCall[3])>>

\* C7: the call returns the empty sequence exactly when the content is empty
\* or all whitespace, and for such content it always returns.
C7_EmptyIffBlank ==
    /\ cpc = "returned" => (chunks = <<>> <=> isBlank(content))
    /\ (cpc # "call" /\ isBlank(content)) => cpc = "returned"

\* C7 witness: a non-empty whitespace-only content returned no chunk
C7_Witness ==
    cpc = "returned" /\ content # <<>> /\ isBlank(content) /\ chunks = <<>>

\* C7 second witness: a content with leading and trailing whitespace
\* returned chunks
C7_WitnessNonBlank ==
    /\ cpc = "returned" /\ Len(chunks) >= 2
    /\ content[1] \in Whitespace /\ content[Len(content)] \in Whitespace

\* C8: the chunk at 0-based position i has chunkId docId#chunk-i, so the ids
\* have no gaps and no repeats, and every chunk carries the docId and title
\* of the call.
C8_SequentialChunkIds ==
    cpc = "returned" =>
        /\ \A n \in 1..Len(chunks) :
              /\ chunks[n].chunkId = <<ident.docId, "#chunk-", n - 1>>
              /\ chunks[n].docId = ident.docId
              /\ chunks[n].title = ident.title
        /\ \A n, m \in 1..Len(chunks) : chunks[n].chunkId = chunks[m].chunkId => n = m

\* C8 witness: a call that returned three chunks
C8_Witness == cpc = "returned" /\ Len(chunks) >= 3

\* C9: every call of chunkDocument returns, whatever integers are passed as
\* maxChunkSize and minChunkSize.
C9_AlwaysReturns == cpc # "looping"

\* C10 as stated: with minChunkSize <= maxChunkSize, two or more paragraphs,
\* each shorter than minChunkSize, whose single-space join is within
\* maxChunkSize, give exactly one chunk: that join, with id docId#chunk-0.
C10_Applies ==
    /\ cpc = "returned"
    /\ minSizeArg <= maxSizeArg
    /\ Len(paragraphsOfCall) >= 2
    /\ \A n \in 1..Len(paragraphsOfCall) : Len(paragraphsOfCall[n]) < minSizeArg
    /\ Len(joinAll(paragraphsOfCall)) <= maxSizeArg

C10_OneChunk ==
    /\ Len(chunks) = 1
    /\ chunks[1].text = joinAll(paragraphsOfCall)
    /\ chunks[1].chunkId = <<ident.docId, "#chunk-", 0>>

C10_SmallParagraphsOneChunk == C10_Applies => C10_OneChunk

\* the paragraphs that remain once the join of the leading ones has reached
\* minSize: <<>> when the join of no proper prefix reaches it
RECURSIVE restAfterReaching(_, _, _)
restAfterReaching(paras, j, minSize) ==
    IF j >= Len(paras) THEN <<>>
    ELSE IF Len(joinAll(SubSeq(paras, 1, j))) >= minSize
    THEN SubSeq(paras, j + 1, Len(paras))
    ELSE restAfterReaching(paras, j + 1, minSize)

\* C10 amended: the paragraphs give exactly one chunk when, once the join of
\* the leading paragraphs has reached minChunkSize, the remaining paragraphs
\* joined by single spaces are together shorter than minChunkSize, which is
\* always so for two or three paragraphs; otherwise they give several chunks.
C10_OneChunkUnlessRestReachesMin ==
    C10_Applies =>
        LET rest == restAfterReaching(paragraphsOfCall, 1, minSizeArg)
        IN  /\ Len(joinAll(rest)) < minSizeArg => C10_OneChunk
            /\ Len(joinAll(rest)) >= minSizeArg => Len(chunks) > 1
            /\ Len(paragraphsOfCall) <= 3 => C10_OneChunk

\* C10 witness: four small paragraphs merged into one chunk, the last one by
\* the trailing backward merge
C10_Witness ==
    /\ C10_Applies
    /\ Len(paragraphsOfCall) = 4
    /\ restAfterReaching(paragraphsOfCall, 1, minSizeArg) # <<>>
    /\ C10_OneChunk

----------------------------------------------------------------------------
(* Bounds of the handler model *)

\* the most documents in one ingest request
MaxBatch == 2
\* the largest topK a request carries explicitly
MaxTopK == 1

----------------------------------------------------------------------------
(* Responses and errors (utils/response, utils/errors) *)

success(data) == [statusCode |-> 200, body |-> data]

error(message, statusCode) == [statusCode |-> statusCode, body |-> [error |-> message]]

\* the text of the first zod issue is left out of the message
validationError == error(<<"Validation error: ">>, 400)

\* an external-service error with the default status of AppError
ExternalServiceErrorDefaultStatus(service, message) ==
    [statusCode |-> 500, message |-> <<service, " error: ">> \o message]

\* new ExternalServiceError(service, message): an operational error, status 502
ExternalServiceError(service, message) ==
    [statusCode |-> 502, message |-> <<service, " error: ">> \o message]

\* the handlers' catch block for an operational error
operationalError(err) == error(err.message, err.statusCode)

\* err.message of a failure raised by an external client
Cause == <<"service unavailable">>

----------------------------------------------------------------------------
(* Request validation (utils/validation) *)

IdChars ==
    {"a", "b", "c", "d", "e", "f", "g", "h", "i", "j", "k", "l", "m",
     "n", "o", "p", "q", "r", "s", "t", "u", "v", "w", "x", "y", "z",
     "A", "B", "C", "D", "E", "F", "G", "H", "I", "J", "K", "L", "M",
     "N", "O", "P", "Q", "R", "S", "T", "U", "V", "W", "X", "Y", "Z",
     "0", "1", "2", "3", "4", "5", "6", "7", "8", "9", "_", "-"}

\* a value of a parsed JSON text: its type and, for a string, its characters
\* or, for a number, its value in tenths; "undefined" is an absent field
jsonOf(type) == [type |-> type, str |-> <<>>, tenths |-> 0]
jsonUndefined == jsonOf("undefined")
jsonString(s) == [type |-> "string", str |-> s, tenths |-> 0]
jsonNumber(t) == [type |-> "number", str |-> <<>>, tenths |-> t]

\* z.string().min(lo).max(hi)
stringBetween(v, lo, hi) ==
    /\ v.type = "string"
    /\ Len(v.str) >= lo
    /\ Len(v.str) <= hi

\* the schema of a document without the pattern of the id
DocumentSchemaAnyId(doc) ==
    /\ doc.type = "object"
    /\ stringBetween(doc.id, 1, 100)
    /\ stringBetween(doc.title, 1, 200)
    /\ stringBetween(doc.content, 1, 50000)

DocumentSchema(doc) ==
    /\ doc.type = "object"
    /\ stringBetween(doc.id, 1, 100)
    /\ \A i \in 1..Len(doc.id.str) : doc.id.str[i] \in IdChars
    /\ stringBetween(doc.title, 1, 200)
    /\ stringBetween(doc.content, 1, 50000)

IngestRequestSchema(body) ==
    /\ body.type = "object"
    /\ body.documents.type = "array"
    /\ Len(body.documents.items) >= 1
    /\ Len(body.documents.items) <= 10
    /\ \A k \in 1..Len(body.documents.items) : DocumentSchema(body.documents.items[k])

\* the parsed document: the three strings
parsedDocument(doc) ==
    [id |-> doc.id.str, title |-> doc.title.str, content |-> doc.content.str]

\* [ok |-> FALSE] stands for the thrown ZodError
validateIngestRequest(body) ==
    IF IngestRequestSchema(body)
    THEN [ok |-> TRUE,
          documents |-> [k \in 1..Len(body.documents.items) |->
                            parsedDocument(body.documents.items[k])]]
    ELSE [ok |-> FALSE, documents |-> <<>>]

DEFAULT_TOP_K == 3

\* the schema of an ask request without .int()
AskRequestSchemaAnyNumber(body) ==
    /\ body.type = "object"
    /\ stringBetween(body.question, 1, 1000)
    /\ \/ body.topK.type = "undefined"
       \/ /\ body.topK.type = "number"
          /\ body.topK.tenths >= 10
          /\ body.topK.tenths <= 100

AskRequestSchema(body) ==
    /\ body.type = "object"
    /\ stringBetween(body.question, 1, 1000)
    /\ \/ body.topK.type = "undefined"
       \/ /\ body.topK.type = "number"
          /\ body.topK.tenths % 10 = 0
          /\ body.topK.tenths >= 10
          /\ body.topK.tenths <= 100

validateAskRequest(body) ==
    IF AskRequestSchema(body)
    THEN [ok |-> TRUE, question |-> body.question.str,
          topK |-> IF body.topK.type = "undefined" THEN DEFAULT_TOP_K
                   ELSE body.topK.tenths \div 10]
    ELSE [ok |-> FALSE, question |-> <<>>, topK |-> 0]

----------------------------------------------------------------------------
(* The Pinecone index and its gateway (services/pinecone) *)

UPSERT_BATCH_SIZE == 100

\* a delete that matches the filter value against the record id
deleteManyById(idx, docId) == {r \in idx : r.id # docId}

\* index.deleteMany({ filter: { docId: { $eq: docId } } })
deleteMany(idx, docId) == {r \in idx : r.metadata.docId # docId}

\* index.upsert(batch): a record replaces the stored record with its id
upsert(idx, batch) ==
    LET ids == {batch[i].id : i \in 1..Len(batch)}
    IN  {r \in idx : r.id \notin ids} \cup {batch[i] : i \in 1..Len(batch)}

Digits == <<"0", "1", "2", "3", "4", "5", "6", "7", "8", "9">>

\* `${n}` for a natural number n
RECURSIVE decimal(_)
decimal(n) ==
    IF n < 10 THEN <<Digits[n + 1]>>
    ELSE decimal(n \div 10) \o <<Digits[(n % 10) + 1]>>

\* String(v || '') for a metadata value v: undefined, null, '' and 0 are falsy,
\* a string stands for itself and a positive number n (in tenths) is `${n}`
String(v) ==
    CASE v.type = "string" -> v.str
      [] v.type = "number" ->
            IF v.tenths = 0 THEN <<>>
            ELSE IF v.tenths % 10 = 0 THEN decimal(v.tenths \div 10)
            ELSE decimal(v.tenths \div 10) \o <<".">> \o decimal(v.tenths % 10)
      [] v.type \in {"undefined", "null"} -> <<>>

\* a variant that keeps a match the index reported without a numeric score
RECURSIVE keepCompleteAnyScore(_)
keepCompleteAnyScore(raw) ==
    IF raw = <<>> THEN <<>>
    ELSE LET match == Head(raw) IN
         IF match.metadata # <<>>
         THEN <<[id |-> match.id,
                 score |-> IF match.score = <<>> THEN 0 ELSE match.score[1],
                 metadata |-> [docId |-> String(match.metadata[1].docId),
                               title |-> String(match.metadata[1].title),
                               chunkText |-> String(match.metadata[1].chunkText)]]>>
              \o keepCompleteAnyScore(Tail(raw))
         ELSE keepCompleteAnyScore(Tail(raw))

\* the loop of queryVectors over results.matches || []
RECURSIVE keepComplete(_)
keepComplete(raw) ==
    IF raw = <<>> THEN <<>>
    ELSE LET match == Head(raw) IN
         IF match.metadata # <<>> /\ match.score # <<>>
         THEN <<[id |-> match.id,
                 score |-> match.score[1],
                 metadata |-> [docId |-> String(match.metadata[1].docId),
                               title |-> String(match.metadata[1].title),
                               chunkText |-> String(match.metadata[1].chunkText)]]>>
              \o keepComplete(Tail(raw))
         ELSE keepComplete(Tail(raw))

\* results.matches is <<>> when the reply has no matches field
queryVectors(reply) ==
    IF reply.matches = <<>> THEN <<>> ELSE keepComplete(reply.matches[1])

----------------------------------------------------------------------------
(* The answer composer (services/llm) *)

NoDocumentsAnswer ==
    <<"I don't have any documents to answer this question. Please ingest some documents first.">>

UnableAnswer == <<"Unable to generate an answer. Please try again.">>

\* generateAnswer raising an error when the service returns no text
generateAnswerThrowsOnNoText(q, ms, reply) ==
    IF Len(ms) = 0
    THEN [called |-> FALSE, threw |-> FALSE, answer |-> NoDocumentsAnswer]
    ELSE IF ~reply.ok \/ reply.content = <<>> \/ reply.content[1] = <<>>
    THEN [called |-> TRUE, threw |-> TRUE,
          answer |-> ExternalServiceError("HuggingFace",
                        <<"Failed to generate answer: ">> \o Cause)]
    ELSE [called |-> TRUE, threw |-> FALSE, answer |-> trim(reply.content[1])]

\* generateAnswer, given the outcome `reply` of chatCompletion;
\* reply.content is <<>> when choices?.[0]?.message?.content is undefined
generateAnswer(q, ms, reply) ==
    IF Len(ms) = 0
    THEN [called |-> FALSE, threw |-> FALSE, answer |-> NoDocumentsAnswer]
    ELSE IF ~reply.ok
    THEN [called |-> TRUE, threw |-> TRUE,
          answer |-> ExternalServiceError("HuggingFace",
                        <<"Failed to generate answer: ">> \o Cause)]
    ELSE IF reply.content = <<>> \/ reply.content[1] = <<>>
    THEN [called |-> TRUE, threw |-> FALSE, answer |-> UnableAnswer]
    ELSE [called |-> TRUE, threw |-> FALSE, answer |-> trim(reply.content[1])]

RECURSIVE sourcesFrom(_, _)
sourcesFrom(ms, seen) ==
    IF ms = <<>> THEN <<>>
    ELSE LET match == Head(ms) IN
         IF match.metadata.docId \in seen
         THEN sourcesFrom(Tail(ms), seen)
         ELSE <<[docId |-> match.metadata.docId, title |-> match.metadata.title]>>
              \o sourcesFrom(Tail(ms), seen \cup {match.metadata.docId})

\* the map entry overwritten by every later match of the document
extractSourcesLastTitle(ms) ==
    LET first == sourcesFrom(ms, {})
        lastOf(d) == CHOOSE j \in 1..Len(ms) :
                        /\ ms[j].metadata.docId = d
                        /\ \A k \in (j + 1)..Len(ms) : ms[k].metadata.docId # d
    IN  [i \in 1..Len(first) |->
            [docId |-> first[i].docId,
             title |-> ms[lastOf(first[i].docId)].metadata.title]]

extractSources(ms) == sourcesFrom(ms, {})

\* (m.score * 100).toFixed(1), a score being a whole number of thousandths
percent(score) == decimal(score \div 10) \o <<".">> \o decimal(score % 10)

\* the entry of the i-th match in the context
contextEntry(m, i) ==
    <<"[">> \o decimal(i) \o <<"] \"">> \o m.metadata.title
        \o <<"\" (relevance: ">> \o percent(m.score) \o <<"%):", "\n">>
        \o m.metadata.chunkText

\* matches.map(...).join('\n\n') from the i-th match on
RECURSIVE contextFrom(_, _)
contextFrom(ms, i) ==
    IF i > Len(ms) THEN <<>>
    ELSE contextEntry(ms[i], i)
            \o (IF i < Len(ms) THEN <<"\n", "\n">> ELSE <<>>)
            \o contextFrom(ms, i + 1)

PromptHeader ==
    <<"Based on the following context documents, answer the question. If the answer cannot be found in the context, say \"I don't have enough information to answer this question.\"",
      "\n", "\n", "Context:", "\n">>

\* the matches by descending score, equal scores in the order given
RECURSIVE byScore(_)
byScore(ms) ==
    IF ms = <<>> THEN <<>>
    ELSE LET best == CHOOSE j \in 1..Len(ms) :
                        \A k \in 1..Len(ms) :
                            /\ ms[k].score <= ms[j].score
                            /\ k < j => ms[k].score < ms[j].score
         IN  <<ms[best]>>
                \o byScore(SubSeq(ms, 1, best - 1) \o SubSeq(ms, best + 1, Len(ms)))

\* the context listing the matches by score
buildPromptByScore(q, ms) ==
    IF Len(ms) = 0
    THEN <<"Question: ">> \o q
            \o <<"\n", "\n", "No context documents were found",
                 ". Please indicate that you cannot answer without relevant documents.">>
    ELSE PromptHeader \o contextFrom(byScore(ms), 1)
            \o <<"\n", "\n", "Question: ">> \o q

\* buildPrompt(question, matches): the prompt as its pieces, a literal of the
\* template being one piece or, at a newline, several
buildPrompt(q, ms) ==
    IF Len(ms) = 0
    THEN <<"Question: ">> \o q
            \o <<"\n", "\n", "No context documents were found",
                 ". Please indicate that you cannot answer without relevant documents.">>
    ELSE PromptHeader \o contextFrom(ms, 1) \o <<"\n", "\n", "Question: ">> \o q

----------------------------------------------------------------------------
(* The embedding service (services/embeddings) *)

\* the vector featureExtraction returns for a text: a signature of the text
embeddingOf(text) == <<Len(text), Head(text)>>

----------------------------------------------------------------------------
(* The requests that are explored *)

DocIds == {<<"d", "1">>, <<"d", "2">>}
Titles == {<<"T">>}

LongParagraph(c) == [n \in 1..DEFAULT_MIN_CHUNK_SIZE |-> c]

\* contents that give no chunk, one chunk and two chunks, and one the schema rejects
BlankContent == <<" ">>
OneChunkContent == <<"a">>
TwoChunkContent == LongParagraph("b") \o BlankLine \o LongParagraph("c")
DocContents == {<<>>, BlankContent, OneChunkContent, TwoChunkContent}

Docs == [id : DocIds, title : Titles, content : DocContents]

RECURSIVE BatchesUpTo(_)
BatchesUpTo(n) ==
    IF n = 0 THEN {<<>>}
    ELSE LET shorter == BatchesUpTo(n - 1)
         IN  shorter \cup {Append(b, d) : b \in shorter, d \in Docs}

\* a document of a request body
jsonDocument(d) ==
    [type |-> "object", id |-> jsonString(d.id), title |-> jsonString(d.title),
     content |-> jsonString(d.content)]

jsonArray(items) == [type |-> "array", items |-> items]

\* event.body: text that is not JSON, the JSON text null, no body at all
\* (parsed as {}), or the JSON text of an object with documents
IngestBodies ==
    {[json |-> FALSE, type |-> "undefined", documents |-> jsonArray(<<>>)],
     [json |-> TRUE, type |-> "null", documents |-> jsonArray(<<>>)],
     [json |-> TRUE, type |-> "object", documents |-> [type |-> "undefined", items |-> <<>>]]}
        \cup {[json |-> TRUE, type |-> "object",
               documents |-> jsonArray([k \in 1..Len(b) |-> jsonDocument(b[k])])] :
                    b \in BatchesUpTo(MaxBatch)}

Questions == {<<>>, <<"q">>}
TopKs == {jsonUndefined} \cup {jsonNumber(10 * n) : n \in 0..MaxTopK}

\* event.body: text that is not JSON, the JSON text null, no body at all
\* (parsed as {}), a question or a topK of the wrong type, or a question with
\* or without topK
AskBodies ==
    {[json |-> FALSE, type |-> "undefined", question |-> jsonUndefined,
      topK |-> jsonUndefined],
     [json |-> TRUE, type |-> "null", question |-> jsonUndefined, topK |-> jsonUndefined],
     [json |-> TRUE, type |-> "object", question |-> jsonUndefined, topK |-> jsonUndefined],
     [json |-> TRUE, type |-> "object", question |-> jsonNumber(10), topK |-> jsonUndefined],
     [json |-> TRUE, type |-> "object", question |-> jsonString(<<"q">>),
      topK |-> jsonString(<<"1">>)],
     [json |-> TRUE, type |-> "object", question |-> jsonString(<<"q">>),
      topK |-> jsonNumber(5)]}
        \cup {[json |-> TRUE, type |-> "object", question |-> jsonString(q), topK |-> k] :
                    q \in Questions, k \in TopKs}

Scores == {90}

\* how the index reports a stored record in a query reply: with or without
\* a numeric score, without metadata or with the metadata as stored; or with
\* a score and metadata some other writer left behind (see Sparse)
Reports ==
    [score : {<<>>} \cup {<<x>> : x \in Scores}, metadata : {"none", "stored"}]
        \cup {[score |-> <<x>>, metadata |-> "sparse"] : x \in Scores}

\* metadata whose docId is the number 7, whose title is absent and whose
\* chunkText is the empty string
Sparse == [docId |-> jsonNumber(70), title |-> jsonUndefined, chunkText |-> jsonString(<<>>)]

\* the sequences of at most k distinct record ids, each with a report
RECURSIVE Selections(_, _)
Selections(ids, k) ==
    IF k = 0 \/ ids = {} THEN {<<>>}
    ELSE {<<>>} \cup
         UNION {{<<[id |-> id, report |-> rep]>> \o rest :
                    rep \in Reports, rest \in Selections(ids \ {id}, k - 1)} : id \in ids}

recordOf(idx, id) == CHOOSE r \in idx : r.id = id

\* the metadata of a stored record as the reply carries it
storedMetadata(r) ==
    [docId |-> jsonString(r.metadata.docId),
     title |-> jsonString(r.metadata.title),
     chunkText |-> jsonString(r.metadata.chunkText)]

\* results.matches for a selection
rawMatches(idx, sel) ==
    [i \in 1..Len(sel) |->
        [id |-> sel[i].id,
         score |-> sel[i].report.score,
         metadata |-> CASE sel[i].report.metadata = "none" -> <<>>
                        [] sel[i].report.metadata = "stored" ->
                              <<storedMetadata(recordOf(idx, sel[i].id))>>
                        [] sel[i].report.metadata = "sparse" -> <<Sparse>>]]

\* the outcomes of index.query: an error, a reply without a matches field, or
\* a reply with at most topK matches over distinct stored records
QueryOutcomes(idx, k) ==
    {[ok |-> FALSE, matches |-> FALSE, sel |-> <<>>],
     [ok |-> TRUE, matches |-> FALSE, sel |-> <<>>]}
        \cup {[ok |-> TRUE, matches |-> TRUE, sel |-> l] :
                 l \in Selections({r.id : r \in idx}, k)}

\* the replies of chatCompletion: an error, no content, or a text
GenerationReplies ==
    {[ok |-> FALSE, content |-> <<>>]}
        \cup {[ok |-> TRUE, content |-> c] :
                 c \in {<<>>, << <<>> >>, << <<" ">> >>, << <<"o", "k", " ">> >>}}

NoOptions == [maxChunkSize |-> <<>>, minChunkSize |-> <<>>]

----------------------------------------------------------------------------
(* The ingest handler (handlers/ingest), one action per await *)

\* a request to an external service has settled: the operation, the document
\* of the ingest loop it was made for (0 in the ask handler), what was sent
\* and whether it succeeded
logCall(op, doc, arg, ok) ==
    Append(calls, [op |-> op, doc |-> doc, arg |-> arg, ok |-> ok])

\* the handler returns r
Respond(r) ==
    /\ hpc' = "responded"
    /\ response' = r

\* the response reporting the count as it was before the last document
NextDocumentStaleTotal(total) ==
    /\ totalChunks' = total
    /\ docChunks' = <<>>
    /\ embeddings' = <<>>
    /\ upserted' = 0
    /\ IF docIx < Len(documents)
       THEN /\ docIx' = docIx + 1
            /\ hpc' = "ingest_delete"
            /\ UNCHANGED response
       ELSE /\ docIx' = docIx
            /\ Respond(success([ingestedDocuments |-> Len(documents),
                                ingestedChunks |-> totalChunks]))

\* the loop moving on to a document without deleting its stale chunks first
NextDocumentSkipsDelete(total) ==
    /\ totalChunks' = total
    /\ embeddings' = <<>>
    /\ upserted' = 0
    /\ IF docIx < Len(documents)
       THEN LET doc == documents[docIx + 1]
                cs == chunkDocument(doc.id, doc.title, doc.content, NoOptions).chunks
            IN  /\ docIx' = docIx + 1
                /\ docChunks' = cs
                /\ hpc' = IF cs = <<>> THEN "ingest_delete" ELSE "ingest_embed"
                /\ UNCHANGED response
       ELSE /\ docIx' = docIx
            /\ docChunks' = <<>>
            /\ Respond(success([ingestedDocuments |-> Len(documents),
                                ingestedChunks |-> total]))

\* the for-of loop moves on after the current document, with `total` chunks so far
NextDocument(total) ==
    /\ totalChunks' = total
    /\ docChunks' = <<>>
    /\ embeddings' = <<>>
    /\ upserted' = 0
    /\ IF docIx < Len(documents)
       THEN /\ docIx' = docIx + 1
            /\ hpc' = "ingest_delete"
            /\ UNCHANGED response
       ELSE /\ docIx' = docIx
            /\ Respond(success([ingestedDocuments |-> Len(documents),
                                ingestedChunks |-> total]))

\* lines 11-30: parse, validate, enter the loop and call deleteByDocId
IngestInvoke(body) ==
    /\ hpc = "idle"
    /\ invoked' = "ingest"
    /\ calls' = <<>>
    /\ IF ~body.json
       THEN /\ Respond(error(<<"Invalid JSON in request body">>, 400))
            /\ UNCHANGED <<documents, docIx>>
       ELSE LET v == validateIngestRequest(body) IN
            IF ~v.ok
            THEN /\ Respond(validationError)
                 /\ UNCHANGED <<documents, docIx>>
            ELSE /\ documents' = v.documents
                 /\ docIx' = 1
                 /\ hpc' = "ingest_delete"
                 /\ UNCHANGED response
    /\ UNCHANGED <<index, docChunks, embeddings, upserted, totalChunks,
                   askVars, previous, chunkVars, serviceVars>>

\* deleteByDocId rethrowing its failure as an ExternalServiceError
IngestDeletePropagates(ok) ==
    /\ hpc = "ingest_delete"
    /\ LET doc == documents[docIx]
           r == chunkDocument(doc.id, doc.title, doc.content, NoOptions)
       IN  /\ r.terminates
           /\ index' = IF ok THEN deleteMany(index, doc.id) ELSE index
           /\ calls' = logCall("deleteMany", docIx, doc.id, ok)
           /\ IF ~ok
              THEN /\ Respond(operationalError(ExternalServiceError("Pinecone",
                                  <<"Failed to delete vectors: ">> \o Cause)))
                   /\ UNCHANGED <<docIx, docChunks, embeddings, upserted, totalChunks>>
              ELSE IF Len(r.chunks) = 0
              THEN NextDocument(totalChunks)
              ELSE /\ docChunks' = r.chunks
                   /\ embeddings' = <<>>
                   /\ hpc' = "ingest_embed"
                   /\ UNCHANGED <<docIx, upserted, totalChunks, response>>
    /\ UNCHANGED <<invoked, documents, askVars, previous, chunkVars, serviceVars>>

\* deleteByDocId settles (a failure is caught and logged), then lines 32-43
IngestDelete(ok) ==
    /\ hpc = "ingest_delete"
    /\ LET doc == documents[docIx]
           r == chunkDocument(doc.id, doc.title, doc.content, NoOptions)
       IN  /\ r.terminates
           /\ index' = IF ok THEN deleteMany(index, doc.id) ELSE index
           /\ calls' = logCall("deleteMany", docIx, doc.id, ok)
           /\ IF Len(r.chunks) = 0
              THEN NextDocument(totalChunks)
              ELSE /\ docChunks' = r.chunks
                   /\ embeddings' = <<>>
                   /\ hpc' = "ingest_embed"
                   /\ UNCHANGED <<docIx, upserted, totalChunks, response>>
    /\ UNCHANGED <<invoked, documents, askVars, previous, chunkVars, serviceVars>>

\* one featureExtraction request of embedTexts settles
IngestEmbed(ok) ==
    /\ hpc = "ingest_embed"
    /\ LET i == Len(embeddings) + 1 IN
       /\ calls' = logCall("featureExtraction", docIx, docChunks[i].text, ok)
       /\ IF ok
          THEN /\ embeddings' = Append(embeddings, embeddingOf(docChunks[i].text))
               /\ hpc' = IF i = Len(docChunks) THEN "ingest_upsert" ELSE "ingest_embed"
               /\ UNCHANGED response
          ELSE /\ Respond(operationalError(ExternalServiceError("HuggingFace",
                              <<"Failed to generate embeddings: ">> \o Cause)))
               /\ UNCHANGED embeddings
    /\ UNCHANGED <<index, invoked, documents, docIx, docChunks, upserted,
                   totalChunks, askVars, previous, chunkVars, serviceVars>>

\* the chunks paired with the embeddings from the end of the list
vectorsOfReversed(cs, es) ==
    [i \in 1..Len(cs) |->
        [id |-> cs[i].chunkId,
         values |-> es[Len(cs) - i + 1],
         metadata |-> [docId |-> cs[i].docId,
                       title |-> cs[i].title,
                       chunkText |-> cs[i].text]]]

\* lines 45-53 of the handler
vectorsOf(cs, es) ==
    [i \in 1..Len(cs) |->
        [id |-> cs[i].chunkId,
         values |-> es[i],
         metadata |-> [docId |-> cs[i].docId,
                       title |-> cs[i].title,
                       chunkText |-> cs[i].text]]]

\* a batch running one record into the next
batchAtOverlapping(vectors, i) == slice(vectors, i, i + UPSERT_BATCH_SIZE + 1)

\* vectors.slice(i, i + UPSERT_BATCH_SIZE)
batchAt(vectors, i) == slice(vectors, i, i + UPSERT_BATCH_SIZE)

\* one index.upsert(batch) of upsertVectors settles, then lines 56-67
IngestUpsert(ok) ==
    /\ hpc = "ingest_upsert"
    /\ LET vectors == vectorsOf(docChunks, embeddings)
           batch == batchAt(vectors, upserted)
       IN  /\ calls' = logCall("upsert", docIx, batch, ok)
           /\ IF ok
              THEN /\ index' = upsert(index, batch)
                   /\ IF upserted + UPSERT_BATCH_SIZE < Len(vectors)
                      THEN /\ upserted' = upserted + UPSERT_BATCH_SIZE
                           /\ UNCHANGED <<hpc, docIx, docChunks, embeddings,
                                          totalChunks, response>>
                      ELSE NextDocument(totalChunks + Len(docChunks))
              ELSE /\ Respond(operationalError(ExternalServiceError("Pinecone",
                                  <<"Failed to upsert vectors: ">> \o Cause)))
                   /\ UNCHANGED <<index, docIx, docChunks, embeddings,
                                  upserted, totalChunks>>
    /\ UNCHANGED <<invoked, documents, askVars, previous, chunkVars, serviceVars>>

----------------------------------------------------------------------------
(* The ask handler (handlers/ask), one action per await *)

\* lines 32-38: the reply when the query gave no match
noMatchesWrongAnswer == success([answer |-> UnableAnswer, sources |-> <<>>])
noMatchesResponse == success([answer |-> NoDocumentsAnswer, sources |-> <<>>])

\* the handler going on to embedText with a body the schema rejects
AskInvokeUnvalidated(body) ==
    /\ hpc = "idle"
    /\ invoked' = "ask"
    /\ calls' = <<>>
    /\ IF ~body.json
       THEN /\ Respond(error(<<"Invalid JSON in request body">>, 400))
            /\ UNCHANGED <<question, topK>>
       ELSE /\ question' = body.question.str
            /\ topK' = IF body.topK.type = "number" THEN body.topK.tenths \div 10
                       ELSE DEFAULT_TOP_K
            /\ hpc' = "ask_embed"
            /\ UNCHANGED response
    /\ UNCHANGED <<index, ingestVars, matches, results, previous, chunkVars, serviceVars>>

\* lines 11-26: parse, validate and call embedText
AskInvoke(body) ==
    /\ hpc = "idle"
    /\ invoked' = "ask"
    /\ calls' = <<>>
    /\ IF ~body.json
       THEN /\ Respond(error(<<"Invalid JSON in request body">>, 400))
            /\ UNCHANGED <<question, topK>>
       ELSE LET v == validateAskRequest(body) IN
            IF ~v.ok
            THEN /\ Respond(validationError)
                 /\ UNCHANGED <<question, topK>>
            ELSE /\ question' = v.question
                 /\ topK' = v.topK
                 /\ hpc' = "ask_embed"
                 /\ UNCHANGED response
    /\ UNCHANGED <<index, ingestVars, matches, results, previous, chunkVars, serviceVars>>

\* embedText swallowing its failure, the handler querying all the same
AskEmbedSwallows(ok) ==
    /\ hpc = "ask_embed"
    /\ calls' = logCall("featureExtraction", 0, question, ok)
    /\ hpc' = "ask_query"
    /\ UNCHANGED response
    /\ UNCHANGED <<index, invoked, ingestVars, askVars, previous, chunkVars, serviceVars>>

\* embedText settles, then queryVectors is called
AskEmbed(ok) ==
    /\ hpc = "ask_embed"
    /\ calls' = logCall("featureExtraction", 0, question, ok)
    /\ IF ok
       THEN /\ hpc' = "ask_query"
            /\ UNCHANGED response
       ELSE Respond(operationalError(ExternalServiceError("HuggingFace",
                        <<"Failed to generate embedding: ">> \o Cause)))
    /\ UNCHANGED <<index, invoked, ingestVars, askVars, previous, chunkVars, serviceVars>>

\* index.query settles with `outcome`, then lines 30-46
AskQueried(outcome) ==
    /\ calls' = logCall("query", 0, topK, outcome.ok)
    /\ IF outcome.ok
       THEN LET reply == [matches |-> IF outcome.matches
                                      THEN <<rawMatches(index, outcome.sel)>>
                                      ELSE <<>>]
                ms == queryVectors(reply)
            IN  /\ results' = <<reply>>
                /\ matches' = <<ms>>
                /\ IF Len(ms) = 0
                   THEN Respond(noMatchesResponse)
                   ELSE /\ hpc' = "ask_generate"
                        /\ UNCHANGED response
       ELSE /\ Respond(operationalError(ExternalServiceError("Pinecone",
                           <<"Failed to query vectors: ">> \o Cause)))
            /\ UNCHANGED <<matches, results>>
    /\ UNCHANGED <<index, invoked, ingestVars, question, topK, previous, chunkVars, serviceVars>>

AskQuery ==
    /\ hpc = "ask_query"
    /\ \E outcome \in QueryOutcomes(index, topK) : AskQueried(outcome)

\* chatCompletion settles inside generateAnswer, then lines 48-56
AskGenerate(reply) ==
    /\ hpc = "ask_generate"
    /\ LET ms == matches[1]
           g == generateAnswer(question, ms, reply)
       IN  /\ calls' = IF g.called THEN logCall("chatCompletion", 0, buildPrompt(question, ms), reply.ok) ELSE calls
           /\ IF g.threw
              THEN Respond(operationalError(g.answer))
              ELSE Respond(success([answer |-> g.answer, sources |-> extractSources(ms)]))
    /\ results' = <<>>
    /\ UNCHANGED <<index, invoked, ingestVars, question, topK, matches, previous,
                   chunkVars, serviceVars>>

----------------------------------------------------------------------------
(* The invocation ends; the container is reused for the next request *)

idsOfDoc(idx, docId) == {r.id : r \in {x \in idx : x.metadata.docId = docId}}

Return ==
    /\ hpc = "responded"
    /\ hpc' = "idle"
    /\ invoked' = "none"
    /\ previous' =
          IF invoked = "ask" THEN previous
          ELSE IF response.statusCode = 200 /\ Len(documents) = 1
          THEN <<[doc |-> documents[1], ids |-> idsOfDoc(index, documents[1].id)]>>
          ELSE <<>>
    /\ documents' = <<>>
    /\ docIx' = 0
    /\ docChunks' = <<>>
    /\ embeddings' = <<>>
    /\ upserted' = 0
    /\ totalChunks' = 0
    /\ question' = <<>>
    /\ topK' = 0
    /\ matches' = <<>>
    /\ results' = <<>>
    /\ calls' = <<>>
    /\ response' = NoResponse
    /\ UNCHANGED <<index, chunkVars, serviceVars>>

Init ==
    /\ ColdStart
    /\ NoServiceCall
    /\ ident \in Idents
    /\ content = <<>>
    /\ options = NoOptions
    /\ cpc = "call"
    /\ chunks = <<>>

Next ==
    \/ \E body \in IngestBodies : IngestInvoke(body)
    \/ \E ok \in BOOLEAN : IngestDelete(ok)
    \/ \E ok \in BOOLEAN : IngestEmbed(ok)
    \/ \E ok \in BOOLEAN : IngestUpsert(ok)
    \/ \E body \in AskBodies : AskInvoke(body)
    \/ \E ok \in BOOLEAN : AskEmbed(ok)
    \/ AskQuery
    \/ \E reply \in GenerationReplies : AskGenerate(reply)
    \/ Return

Spec == Init /\ [][Next]_vars

----------------------------------------------------------------------------
(* Claims about the handlers, checked under Spec *)

\* the ingest invocation has returned success
ingestSucceeded ==
    /\ hpc = "responded"
    /\ invoked = "ingest"
    /\ response.statusCode = 200

\* the last document of the request that has the id
lastWithId(docs, id) ==
    docs[CHOOSE k \in 1..Len(docs) :
            /\ docs[k].id = id
            /\ \A j \in (k + 1)..Len(docs) : docs[j].id # id]

\* id and metadata of the records chunkDocument and lines 45-53 give for doc
recordsFor(doc) ==
    LET cs == chunkDocument(doc.id, doc.title, doc.content, NoOptions).chunks
    IN  {[id |-> cs[i].chunkId,
          metadata |-> [docId |-> cs[i].docId,
                        title |-> cs[i].title,
                        chunkText |-> cs[i].text]] : i \in 1..Len(cs)}

\* id and metadata of the stored records whose metadata docId is docId
storedFor(idx, docId) ==
    {[id |-> r.id, metadata |-> r.metadata] :
        r \in {x \in idx : x.metadata.docId = docId}}

\* C1: when an ingest request has returned success, for every document id d
\* of the request the stored records whose metadata docId is d are exactly
\* the chunks of the content just ingested under d, whatever the index held
\* before and whatever the outcome of the stale-chunk delete was.
C1_ReplaceById ==
    ingestSucceeded =>
        \A k \in 1..Len(documents) :
            storedFor(index, documents[k].id)
                = recordsFor(lastWithId(documents, documents[k].id))

\* C2: when a one-document ingest has returned success and the successful
\* ingest before it was of the identical document (same id, title, content),
\* the index holds the same set of record ids for the document, hence as
\* many records, as it held after the first of the two.
C2_ReingestKeepsRecordIds ==
    (/\ ingestSucceeded
     /\ Len(documents) = 1
     /\ previous # <<>>
     /\ previous[1].doc = documents[1])
        => idsOfDoc(index, documents[1].id) = previous[1].ids

\* the similarity query of the ask invocation has returned no match
queryGaveNoMatch ==
    /\ invoked = "ask"
    /\ matches = << <<>> >>

\* C3: in the ask handler, once the similarity query has yielded zero matches
\* the handler has responded with status 200, the literal answer "I don't
\* have any documents to answer this question. Please ingest some documents
\* first." and an empty sources list, and no request to the generation
\* service was made in the invocation.
C3_NoMatchFallback ==
    queryGaveNoMatch =>
        /\ hpc = "responded"
        /\ response.statusCode = 200
        /\ response.body.answer =
              <<"I don't have any documents to answer this question. Please ingest some documents first.">>
        /\ response.body.sources = <<>>
        /\ \A i \in 1..Len(calls) : calls[i].op # "chatCompletion"

\* a query over a non-empty index has ended without a match
C3_Witness ==
    /\ queryGaveNoMatch
    /\ index # {}
    /\ hpc = "responded"
    /\ calls[Len(calls)].op = "query"
    /\ calls[Len(calls)].ok

\* the ingest invocation has returned because an embedding request or an
\* upsert failed
ingestAborted ==
    /\ hpc = "responded"
    /\ invoked = "ingest"
    /\ calls # <<>>
    /\ calls[Len(calls)].op \in {"featureExtraction", "upsert"}
    /\ ~calls[Len(calls)].ok

\* the service named in the message of a failed request
serviceOf(op) == IF op = "upsert" THEN "Pinecone" ELSE "HuggingFace"

\* documents before the k-th whose id no document up to the k-th takes again
writtenBefore(k) ==
    {j \in 1..(k - 1) : \A i \in (j + 1)..k : documents[i].id # documents[j].id}

\* the response and the index when the ingest of document docIx was aborted
C11_AbortedState ==
    ingestAborted =>
        /\ response.statusCode = 502
        /\ response.body.error[1] = serviceOf(calls[Len(calls)].op)
        /\ response.body.error[2] = " error: "
        /\ response.body.error[Len(response.body.error)] = Cause[1]
        /\ \A i \in 1..Len(calls) : calls[i].doc <= docIx
        /\ \A i \in 1..(Len(calls) - 1) : calls[i].ok \/ calls[i].op = "deleteMany"
        /\ \A j \in writtenBefore(docIx) :
              recordsFor(documents[j]) \subseteq storedFor(index, documents[j].id)

\* the step in which an embedding request or an upsert fails removes nothing
C11_AbortStep ==
    (/\ hpc \in {"ingest_embed", "ingest_upsert"}
     /\ hpc' = "responded"
     /\ response'.statusCode # 200)
        => index' = index

\* C11: when an embedding request or an upsert fails while the k-th document
\* of a batch is ingested, the handler returns status 502 with the
\* external-service message, has made no request for a later document and
\* makes none after the failure, and the failing step removes no record, so
\* that the records upserted for documents 1..k-1 are still stored.
C11_AbortKeepsEarlierWrites == []C11_AbortedState /\ [][C11_AbortStep]_vars

\* the second document of a batch fails after the first was written
C11_Witness ==
    /\ ingestAborted
    /\ docIx = 2
    /\ documents[1].id # documents[2].id
    /\ Cardinality(recordsFor(documents[1])) = 2
    /\ recordsFor(documents[1]) = storedFor(index, documents[1].id)

\* a deleteByDocId never ends the request with an error
C12_DeleteNeverThrows ==
    (/\ hpc = "responded"
     /\ invoked = "ingest"
     /\ calls # <<>>
     /\ calls[Len(calls)].op = "deleteMany")
        => response.statusCode = 200

\* every document of a successful request is stored, whatever its delete did
C12_StoredAnyway ==
    ingestSucceeded =>
        \A k \in 1..Len(documents) :
            recordsFor(lastWithId(documents, documents[k].id))
                \subseteq storedFor(index, documents[k].id)

\* the step in which the delete for the current document fails: the index is
\* left alone and the handler chunks the document and goes on to its first
\* embedding request, or to the next document when there is no chunk
C12_FailedDeleteStep ==
    (/\ hpc = "ingest_delete"
     /\ Len(calls') = Len(calls) + 1
     /\ ~calls'[Len(calls')].ok)
        => LET doc == documents[docIx]
               cs == chunkDocument(doc.id, doc.title, doc.content, NoOptions).chunks
           IN  /\ index' = index
               /\ documents' = documents
               /\ IF cs # <<>>
                  THEN /\ hpc' = "ingest_embed"
                       /\ docChunks' = cs
                       /\ embeddings' = <<>>
                       /\ docIx' = docIx
                       /\ totalChunks' = totalChunks
                  ELSE IF docIx < Len(documents)
                  THEN /\ hpc' = "ingest_delete"
                       /\ docIx' = docIx + 1
                       /\ totalChunks' = totalChunks
                  ELSE /\ hpc' = "responded"
                       /\ response' = success([ingestedDocuments |-> Len(documents),
                                               ingestedChunks |-> totalChunks])

\* C12: a failure of the stale-chunk deletion for a document is swallowed:
\* no deleteByDocId ends the request with an error, and after a failed delete
\* the handler chunks, embeds and upserts the document as after a successful
\* one, so that the document's records are stored when the request succeeds.
C12_DeleteFailureSwallowed ==
    []C12_DeleteNeverThrows /\ []C12_StoredAnyway /\ [][C12_FailedDeleteStep]_vars

\* a request succeeded although the delete for its first document failed, and
\* that document was embedded and upserted
C12_Witness ==
    /\ ingestSucceeded
    /\ ~calls[1].ok
    /\ \E i \in 1..Len(calls) :
          /\ calls[i].op = "upsert"
          /\ calls[i].doc = 1
          /\ calls[i].ok
    /\ response.body.ingestedChunks >= 1

\* the place of an operation in the processing of one document
phase(op) ==
    CASE op = "deleteMany" -> 1
      [] op = "featureExtraction" -> 2
      [] op = "upsert" -> 3

\* the ids of the records sent for document k in the first n requests
RECURSIVE upsertedIds(_, _)
upsertedIds(k, n) ==
    IF n = 0 THEN {}
    ELSE upsertedIds(k, n - 1)
            \cup (IF calls[n].op = "upsert" /\ calls[n].doc = k /\ calls[n].ok
                  THEN {calls[n].arg[i].id : i \in 1..Len(calls[n].arg)}
                  ELSE {})

\* after the first n requests nothing remains to be done for document k
doneWith(k, n) ==
    upsertedIds(k, n) = {r.id : r \in recordsFor(documents[k])}

\* C13: within one ingest request the requests to external services are made
\* document by document in request order; those of one document are its
\* delete-by-docId, then its embedding requests, then its upserts; and the
\* first request for document k+1 (its delete) comes only after every record
\* of document k has been upserted.
C13_SequentialPerDocument ==
    (invoked = "ingest" /\ calls # <<>>) =>
        /\ calls[1].doc = 1
        /\ calls[1].op = "deleteMany"
        /\ \A n \in 1..(Len(calls) - 1) :
              \/ /\ calls[n + 1].doc = calls[n].doc
                 /\ phase(calls[n + 1].op) >= phase(calls[n].op)
                 /\ calls[n + 1].op # "deleteMany"
              \/ /\ calls[n + 1].doc = calls[n].doc + 1
                 /\ calls[n + 1].op = "deleteMany"
                 /\ calls[n + 1].arg = documents[calls[n + 1].doc].id
                 /\ doneWith(calls[n].doc, n)

\* both documents of a two-document request were deleted, embedded and upserted
C13_Witness ==
    /\ ingestSucceeded
    /\ Len(documents) = 2
    /\ Cardinality(upsertedIds(1, Len(calls))) = 2
    /\ Cardinality(upsertedIds(2, Len(calls))) = 2

\* the number of chunks chunkDocument gives for a document
chunkCount(doc) ==
    Len(chunkDocument(doc.id, doc.title, doc.content, NoOptions).chunks)

\* the chunk counts of the first k documents, added up
RECURSIVE chunksUpTo(_)
chunksUpTo(k) ==
    IF k = 0 THEN 0 ELSE chunksUpTo(k - 1) + chunkCount(documents[k])

\* the number of records passed to upsert in the first n requests
RECURSIVE recordsSent(_)
recordsSent(n) ==
    IF n = 0 THEN 0
    ELSE recordsSent(n - 1)
            + (IF calls[n].op = "upsert" THEN Len(calls[n].arg) ELSE 0)

\* C14: on a successful ingest ingestedChunks is the sum of the documents'
\* chunk counts, which is the number of records passed to upsert during the
\* request, and ingestedDocuments is the number of documents of the request;
\* for a document without chunks the only request ever made is its delete,
\* and no request ends in an error on such a document.
C14_ResponseCounts ==
    /\ ingestSucceeded =>
          /\ response.body.ingestedChunks = chunksUpTo(Len(documents))
          /\ response.body.ingestedChunks = recordsSent(Len(calls))
          /\ response.body.ingestedDocuments = Len(documents)
    /\ invoked = "ingest" =>
          \A n \in 1..Len(calls) :
              chunkCount(documents[calls[n].doc]) = 0 =>
                  /\ calls[n].op = "deleteMany"
                  /\ (n = Len(calls) /\ hpc = "responded") => response.statusCode = 200

\* a successful request with a document without chunks and one with two
C14_Witness ==
    /\ ingestSucceeded
    /\ Len(documents) = 2
    /\ chunkCount(documents[1]) = 0
    /\ chunkCount(documents[2]) = 2
    /\ response.body.ingestedChunks = 2

\* the external calls of the ask handler, in program order
AskOrder == <<"featureExtraction", "query", "chatCompletion">>

\* C15: in every ask invocation the requests made are, in this order and each
\* at most once, the embedding of the question, the query with topK and the
\* generation; a failed request is the last one of the invocation, and the
\* handler has then returned an error response with status 502.
C15_AskCallOrder ==
    invoked = "ask" =>
        /\ Len(calls) <= Len(AskOrder)
        /\ \A i \in 1..Len(calls) : calls[i].op = AskOrder[i]
        /\ Len(calls) >= 1 => calls[1].arg = question
        /\ Len(calls) >= 2 => calls[2].arg = topK
        /\ \A i \in 1..(Len(calls) - 1) : calls[i].ok
        /\ (calls # <<>> /\ ~calls[Len(calls)].ok) =>
              /\ hpc = "responded"
              /\ response.statusCode = 502

\* the generation failed after the embedding and the query succeeded
C15_Witness ==
    /\ invoked = "ask"
    /\ Len(calls) = 3
    /\ ~calls[3].ok
    /\ response.statusCode = 502

\* the replies of the generation service without a text: choices, message or
\* content missing, or the empty string
NoTextReplies ==
    {reply \in GenerationReplies :
        reply.ok /\ (reply.content = <<>> \/ reply.content[1] = <<>>)}

\* srcs names each docId of the matches once, with a title of such a match
deduplicated(srcs, ms) ==
    /\ \A i, j \in 1..Len(srcs) : srcs[i].docId = srcs[j].docId => i = j
    /\ {srcs[i].docId : i \in 1..Len(srcs)}
          = {ms[i].metadata.docId : i \in 1..Len(ms)}
    /\ \A i \in 1..Len(srcs) :
          \E j \in 1..Len(ms) :
              /\ ms[j].metadata.docId = srcs[i].docId
              /\ ms[j].metadata.title = srcs[i].title

\* the step in which the generation service answers without a text
C16_NoTextStep ==
    \A reply \in NoTextReplies :
        AskGenerate(reply) =>
            /\ Len(matches[1]) >= 1
            /\ response'.statusCode = 200
            /\ response'.body.answer
                  = <<"Unable to generate an answer. Please try again.">>
            /\ deduplicated(response'.body.sources, matches[1])

\* C16: when there is at least one match and the generation service returns
\* no text, the answer is the fixed string "Unable to generate an answer.
\* Please try again.", no error is raised, and the ask response has status 200
\* with the deduplicated sources of the matches.
C16_NoTextFallback == [][C16_NoTextStep]_vars

\* the fixed answer was returned for two matches of one document
C16_Witness ==
    /\ invoked = "ask"
    /\ hpc = "responded"
    /\ response.statusCode = 200
    /\ response.body.answer = UnableAnswer
    /\ Len(matches[1]) = 2
    /\ Len(response.body.sources) = 1

\* the embedding requests made for document d of the request
embedRequests(d) ==
    SelectSeq(calls, LAMBDA c : c.op = "featureExtraction" /\ c.doc = d)

\* the upsert requests made for document d of the request
upsertRequests(d) ==
    SelectSeq(calls, LAMBDA c : c.op = "upsert" /\ c.doc = d)

\* chunks.map((c) => c.text) for a document
textsOf(doc) ==
    LET cs == chunkDocument(doc.id, doc.title, doc.content, NoOptions).chunks
    IN  [i \in 1..Len(cs) |-> cs[i].text]

C20_Embeddings ==
    invoked = "ingest" =>
        /\ \A d \in 1..Len(documents) :
              LET reqs == embedRequests(d)
                  sent == upsertRequests(d)
                  texts == textsOf(documents[d])
              IN  /\ Len(reqs) <= Len(texts)
                  /\ \A k \in 1..Len(reqs) :
                        /\ reqs[k].arg = texts[k]
                        /\ k < Len(reqs) => reqs[k].ok
                  /\ (reqs # <<>> /\ ~reqs[Len(reqs)].ok) =>
                        /\ sent = <<>>
                        /\ calls[Len(calls)] = reqs[Len(reqs)]
                        /\ hpc = "responded"
                        /\ response.statusCode = 502
                  /\ sent # <<>> =>
                        /\ Len(reqs) = Len(texts)
                        /\ reqs[Len(reqs)].ok
                  /\ \A n \in 1..Len(sent) : \A i \in 1..Len(sent[n].arg) :
                        /\ sent[n].arg[i].metadata.chunkText = texts[i]
                        /\ sent[n].arg[i].values = embeddingOf(texts[i])
        /\ hpc \in {"ingest_embed", "ingest_upsert"} =>
              /\ Len(embeddings) = Len(embedRequests(docIx))
              /\ Len(embeddings) <= Len(docChunks)
              /\ \A k \in 1..Len(embeddings) :
                    embeddings[k] = embeddingOf(docChunks[k].text)
        /\ hpc = "ingest_embed" => Len(embeddings) < Len(docChunks)
        /\ hpc = "ingest_upsert" => Len(embeddings) = Len(docChunks)

\* while embedTexts runs, a step is one request settling: the request for the
\* text after the last one answered
C20_EmbedStep ==
    hpc = "ingest_embed" =>
        /\ Len(calls') = Len(calls) + 1
        /\ SubSeq(calls', 1, Len(calls)) = calls
        /\ calls'[Len(calls')].op = "featureExtraction"
        /\ calls'[Len(calls')].arg = docChunks[Len(embeddings) + 1].text
        /\ hpc' = "responded" <=> ~calls'[Len(calls')].ok
        /\ hpc' = "responded" => index' = index

askBodyValid(body) ==
    /\ body.json
    /\ body.type = "object"
    /\ body.question.type = "string"
    /\ Len(body.question.str) \in 1..1000
    /\ \/ body.topK.type = "undefined"
       \/ body.topK.type = "number" /\ \E k \in 1..10 : body.topK.tenths = 10 * k

\* the body is JSON text that the ingest schema accepts
ingestBodyValid(body) ==
    /\ body.json
    /\ body.type = "object"
    /\ body.documents.type = "array"
    /\ Len(body.documents.items) \in 1..10
    /\ \A k \in 1..Len(body.documents.items) :
          LET d == body.documents.items[k] IN
          /\ d.type = "object"
          /\ {d.id.type, d.title.type, d.content.type} = {"string"}
          /\ Len(d.id.str) \in 1..100
          /\ \A i \in 1..Len(d.id.str) : d.id.str[i] \in IdChars
          /\ Len(d.title.str) \in 1..200
          /\ Len(d.content.str) \in 1..50000

\* the invocation has returned 400 without a request to an external service,
\* leaving the index as it was
rejected ==
    /\ hpc' = "responded"
    /\ response'.statusCode = 400
    /\ calls' = <<>>
    /\ index' = index

C27_RejectStep ==
    /\ \A body \in AskBodies :
          (AskInvoke(body) /\ ~askBodyValid(body)) => rejected
    /\ \A body \in IngestBodies :
          (IngestInvoke(body) /\ ~ingestBodyValid(body)) => rejected

\* a response of status 400 ends an invocation that made no request, and an
\* invocation that made a request works on validated input
C27_NoCallOnInvalid ==
    /\ (hpc = "responded" /\ response.statusCode = 400) => calls = <<>>
    /\ (invoked = "ask" /\ calls # <<>>) =>
          (Len(question) \in 1..1000 /\ topK \in 1..10)
    /\ (invoked = "ingest" /\ calls # <<>>) =>
          /\ Len(documents) \in 1..10
          /\ \A k \in 1..Len(documents) : Len(documents[k].content) >= 1

\* C27: when the request body of the ask or the ingest handler is not valid
\* JSON or violates the request schema, the handler returns status 400 and no
\* embedding, query, delete, upsert or generation request has been made in
\* that invocation.
C27_ValidationFirst == []C27_NoCallOnInvalid /\ [][C27_RejectStep]_vars

\* an ask request was rejected in front of an index that holds records
C27_Witness ==
    /\ hpc = "responded"
    /\ invoked = "ask"
    /\ response.statusCode = 400
    /\ response.body.error = <<"Validation error: ">>
    /\ calls = <<>>
    /\ index # {}

-----------------------------------------------------------------------------
(* Direct calls of the services: extractSources, buildPrompt, upsertVectors *)

\* the most matches passed to extractSources or buildPrompt
MaxMatches == 3
\* the most vectors passed to upsertVectors
MaxVectors == 201

ServiceTitles == {<<"T">>, <<"U">>}
\* scores in thousandths
ServiceScores == {500, 900}

ServiceMatches ==
    [id : {<<"m">>},
     score : ServiceScores,
     metadata : [docId : DocIds, title : ServiceTitles, chunkText : {<<"x", "y">>}]]

RECURSIVE MatchListsUpTo(_)
MatchListsUpTo(n) ==
    IF n = 0 THEN {<<>>}
    ELSE LET shorter == MatchListsUpTo(n - 1) IN
         shorter \cup {Append(l, m) : l \in {x \in shorter : Len(x) = n - 1},
                                      m \in ServiceMatches}

\* the i-th vector of a call of upsertVectors
vectorAt(i) ==
    [id |-> <<"v">> \o decimal(i),
     values |-> <<i>>,
     metadata |-> [docId |-> <<"d", "1">>, title |-> <<"T">>, chunkText |-> <<"x">>]]

VectorLists == {[i \in 1..n |-> vectorAt(i)] : n \in 0..MaxVectors}

\* the string of n characters c
repeat(c, n) == [i \in 1..n |-> c]

\* values a client may put under "question": none, not a string, and strings
\* around both limits
AskQuestionValues ==
    {jsonUndefined, jsonOf("null"), jsonNumber(50)}
        \cup {jsonString(repeat("a", n)) : n \in {0, 1, 1000, 1001}}

\* values a client may put under "topK": none, not a number, and numbers
\* around both limits, whole or not
AskTopKValues ==
    {jsonUndefined, jsonOf("null"), jsonOf("boolean"), jsonString(<<"3">>)}
        \cup {jsonNumber(t) : t \in {-10, 0, 5, 10, 35, 50, 100, 105, 110, 150}}

AskRequestBodies ==
    {[json |-> TRUE, type |-> t, question |-> jsonUndefined, topK |-> jsonUndefined] :
        t \in {"null", "array", "string"}}
    \cup {[json |-> TRUE, type |-> "object", question |-> q, topK |-> k] :
            q \in AskQuestionValues, k \in AskTopKValues}

ValidDocument ==
    [type |-> "object", id |-> jsonString(<<"d", "-", "1", "_", "A">>),
     title |-> jsonString(<<"T">>), content |-> jsonString(<<"c">>)]

IdValues ==
    {jsonUndefined, jsonNumber(10)}
        \cup {jsonString(t) : t \in {<<>>, repeat("a", 100), repeat("a", 101),
                                     <<"a", " ", "b">>, <<"d", "@">>, <<"d", "\n">>}}

TitleValues ==
    {jsonUndefined} \cup {jsonString(repeat("t", n)) : n \in {0, 200, 201}}

ContentValues ==
    {jsonUndefined} \cup {jsonString(repeat("c", n)) : n \in {0, 50000, 50001}}

\* the valid document, the documents that differ from it in one field, and an
\* item that is no object
DocumentValues ==
    {ValidDocument, [ValidDocument EXCEPT !.type = "null"]}
        \cup {[ValidDocument EXCEPT !.id = v] : v \in IdValues}
        \cup {[ValidDocument EXCEPT !.title = v] : v \in TitleValues}
        \cup {[ValidDocument EXCEPT !.content = v] : v \in ContentValues}

DocumentsValues ==
    {[type |-> t, items |-> <<>>] : t \in {"undefined", "string", "array"}}
        \cup {jsonArray(<<d>>) : d \in DocumentValues}
        \cup {jsonArray(<<ValidDocument, d>>) : d \in DocumentValues}
        \cup {jsonArray(repeat(ValidDocument, n)) : n \in {10, 11}}
        \cup {jsonArray(Append(repeat(ValidDocument, 9), d)) : d \in DocumentValues}

IngestRequestBodies ==
    {[json |-> TRUE, type |-> "null", documents |-> jsonArray(<<>>)]}
        \cup {[json |-> TRUE, type |-> "object", documents |-> ds] : ds \in DocumentsValues}

NoBody == [json |-> TRUE, type |-> "undefined"]

ServiceCalls ==
    {[fn |-> "extractSources", question |-> <<>>, matches |-> ms, vectors |-> <<>>,
      body |-> NoBody] : ms \in MatchListsUpTo(MaxMatches)}
    \cup {[fn |-> "buildPrompt", question |-> <<"q", "?">>, matches |-> ms,
           vectors |-> <<>>, body |-> NoBody] : ms \in MatchListsUpTo(MaxMatches)}
    \cup {[fn |-> "upsertVectors", question |-> <<>>, matches |-> <<>>, vectors |-> vs,
           body |-> NoBody] : vs \in VectorLists}
    \cup {[fn |-> "validateAskRequest", question |-> <<>>, matches |-> <<>>,
           vectors |-> <<>>, body |-> b] : b \in AskRequestBodies}
    \cup {[fn |-> "validateIngestRequest", question |-> <<>>, matches |-> <<>>,
           vectors |-> <<>>, body |-> b] : b \in IngestRequestBodies}

ServiceInit ==
    /\ ColdStart
    /\ ident \in Idents
    /\ content = <<>>
    /\ options = NoOptions
    /\ cpc = "call"
    /\ chunks = <<>>
    /\ fpc = "call"
    /\ given \in ServiceCalls
    /\ result = <<>>
    /\ ColdClient
    /\ runs = <<>>

\* the call extractSources(matches)
CallExtractSources ==
    /\ fpc = "call"
    /\ given.fn = "extractSources"
    /\ fpc' = "returned"
    /\ result' = <<extractSources(given.matches)>>
    /\ UNCHANGED <<given, clientVars, runs, chunkVars, handlerVars>>

\* the call buildPrompt(question, matches)
CallBuildPrompt ==
    /\ fpc = "call"
    /\ given.fn = "buildPrompt"
    /\ fpc' = "returned"
    /\ result' = <<buildPrompt(given.question, given.matches)>>
    /\ UNCHANGED <<given, clientVars, runs, chunkVars, handlerVars>>

\* the call upsertVectors(vectors) up to its first await
CallUpsertVectors ==
    /\ fpc = "call"
    /\ given.fn = "upsertVectors"
    /\ fpc' = IF Len(given.vectors) = 0 THEN "returned" ELSE "upsert"
    /\ upserted' = 0
    /\ UNCHANGED <<given, result, clientVars, runs, chunkVars, index, hpc, invoked, documents, docIx,
                   docChunks, embeddings, totalChunks, askVars, calls, response,
                   previous>>

\* one index.upsert(batch) of the loop settles
UpsertBatch(ok) ==
    /\ fpc = "upsert"
    /\ LET batch == batchAt(given.vectors, upserted) IN
       /\ calls' = logCall("upsert", 0, batch, ok)
       /\ IF ok
          THEN /\ index' = upsert(index, batch)
               /\ upserted' = upserted + UPSERT_BATCH_SIZE
               /\ fpc' = IF upserted + UPSERT_BATCH_SIZE < Len(given.vectors)
                         THEN "upsert" ELSE "returned"
               /\ UNCHANGED result
          ELSE /\ fpc' = "threw"
               /\ result' = <<ExternalServiceError("Pinecone",
                                 <<"Failed to upsert vectors: ">> \o Cause)>>
               /\ UNCHANGED <<index, upserted>>
    /\ UNCHANGED <<given, clientVars, runs, chunkVars, hpc, invoked, documents, docIx, docChunks,
                   embeddings, totalChunks, askVars, response, previous>>

\* the call validateAskRequest(body)
CallValidateAskRequest ==
    /\ fpc = "call"
    /\ given.fn = "validateAskRequest"
    /\ LET v == validateAskRequest(given.body) IN
       /\ fpc' = IF v.ok THEN "returned" ELSE "threw"
       /\ result' = <<v>>
    /\ UNCHANGED <<given, clientVars, runs, chunkVars, handlerVars>>

\* the call validateIngestRequest(body)
CallValidateIngestRequest ==
    /\ fpc = "call"
    /\ given.fn = "validateIngestRequest"
    /\ LET v == validateIngestRequest(given.body) IN
       /\ fpc' = IF v.ok THEN "returned" ELSE "threw"
       /\ result' = <<v>>
    /\ UNCHANGED <<given, clientVars, runs, chunkVars, handlerVars>>

ServiceNext ==
    \/ CallValidateAskRequest
    \/ CallValidateIngestRequest
    \/ CallExtractSources
    \/ CallBuildPrompt
    \/ CallUpsertVectors
    \/ \E ok \in BOOLEAN : UpsertBatch(ok)

ServiceSpec == ServiceInit /\ [][ServiceNext]_vars

-----------------------------------------------------------------------------
(* Claims about the services, checked under ServiceSpec *)

docIdsOf(ms) == {ms[j].metadata.docId : j \in 1..Len(ms)}

\* the position of the first match of document d
firstOccurrence(ms, d) ==
    CHOOSE j \in 1..Len(ms) :
        /\ ms[j].metadata.docId = d
        /\ \A k \in 1..(j - 1) : ms[k].metadata.docId # d

\* C17: extractSources returns exactly one source per distinct docId, in the
\* order of the first occurrence of each docId among the matches, each with the
\* title of the first match of that docId even when a later match of the docId
\* has another title; no match gives no source.
C17_SourcesFirstOccurrence ==
    (fpc = "returned" /\ given.fn = "extractSources") =>
        LET ms == given.matches
            out == result[1]
        IN  /\ {out[i].docId : i \in 1..Len(out)} = docIdsOf(ms)
            /\ Len(out) = Cardinality(docIdsOf(ms))
            /\ \A i \in 1..Len(out) :
                  out[i].title = ms[firstOccurrence(ms, out[i].docId)].metadata.title
            /\ \A i, j \in 1..Len(out) :
                  i < j => firstOccurrence(ms, out[i].docId)
                              < firstOccurrence(ms, out[j].docId)
            /\ (ms = <<>> => out = <<>>)

\* three matches, the first and the last of one document under two titles
C17_Witness ==
    /\ fpc = "returned"
    /\ given.fn = "extractSources"
    /\ Len(given.matches) = 3
    /\ given.matches[1].metadata.docId = given.matches[3].metadata.docId
    /\ given.matches[1].metadata.title # given.matches[3].metadata.title
    /\ given.matches[2].metadata.docId # given.matches[1].metadata.docId
    /\ Len(result[1]) = 2
    /\ result[1][1].title = given.matches[1].metadata.title

\* where a piece stands in a prompt
positionsOf(prompt, piece) == {p \in 1..Len(prompt) : prompt[p] = piece}

\* the k-th smallest member of a set of positions
kth(S, k) == CHOOSE p \in S : Cardinality({x \in S : x < p}) = k - 1

\* the pieces of t stand in prompt from position p on
standsAt(prompt, p, t) ==
    /\ p + Len(t) - 1 <= Len(prompt)
    /\ SubSeq(prompt, p, p + Len(t) - 1) = t

\* the k-th entry of the prompt is match m under the number k
listsAs(prompt, k, m) ==
    LET open == kth(positionsOf(prompt, "["), k)
        body == kth(positionsOf(prompt, "%):"), k)
        number == decimal(k)
    IN  /\ standsAt(prompt, open + 1, number)
        /\ standsAt(prompt, open + 1 + Len(number), <<"] \"">> \o m.metadata.title)
        /\ open < body
        /\ standsAt(prompt, body + 1, <<"\n">> \o m.metadata.chunkText)

\* C18: for a non-empty match sequence buildPrompt lists every match exactly
\* once, in the order given and not by score, numbered [1]..[n] with its title
\* and chunk text, and the prompt ends with the line "Question: " followed by
\* the literal question; for an empty match sequence the prompt contains the
\* question and the sentence "No context documents were found".
C18_PromptListsMatchesInOrder ==
    (fpc = "returned" /\ given.fn = "buildPrompt") =>
        LET ms == given.matches
            q == given.question
            prompt == result[1]
            n == Len(ms)
        IN  IF n = 0
            THEN /\ \E p \in 1..Len(prompt) : standsAt(prompt, p, q)
                 /\ positionsOf(prompt, "No context documents were found") # {}
            ELSE /\ Cardinality(positionsOf(prompt, "[")) = n
                 /\ Cardinality(positionsOf(prompt, "%):")) = n
                 /\ \A k \in 1..n : listsAs(prompt, k, ms[k])
                 /\ \A k \in 1..(n - 1) :
                       kth(positionsOf(prompt, "%):"), k)
                           < kth(positionsOf(prompt, "["), k + 1)
                 /\ standsAt(prompt, Len(prompt) - Len(q) - 1,
                             <<"\n", "Question: ">> \o q)

\* three matches given in ascending score under two titles
C18_Witness ==
    /\ fpc = "returned"
    /\ given.fn = "buildPrompt"
    /\ Len(given.matches) = 3
    /\ given.matches[1].score < given.matches[2].score
    /\ given.matches[1].metadata.title # given.matches[2].metadata.title
    /\ listsAs(result[1], 2, given.matches[2])
    /\ result[1][Len(result[1])] = "?"

\* the number of batches of n records
batchCount(n) == (n + UPSERT_BATCH_SIZE - 1) \div UPSERT_BATCH_SIZE

\* the records of the k-th consecutive batch
consecutiveBatch(vs, k) ==
    SubSeq(vs, UPSERT_BATCH_SIZE * (k - 1) + 1, Min2(UPSERT_BATCH_SIZE * k, Len(vs)))

\* the upsert requests made so far that succeeded
writtenBatches == {k \in 1..Len(calls) : calls[k].ok}

C19_Batches ==
    (given # <<>> /\ given.fn = "upsertVectors") =>
        LET vs == given.vectors
            n == Len(vs)
        IN  /\ Len(calls) <= batchCount(n)
            /\ \A k \in 1..Len(calls) :
                  /\ calls[k].op = "upsert"
                  /\ calls[k].arg = consecutiveBatch(vs, k)
                  /\ Len(calls[k].arg) \in 1..UPSERT_BATCH_SIZE
                  /\ k < Len(calls) => calls[k].ok
            /\ index = UNION {{calls[k].arg[i] : i \in 1..Len(calls[k].arg)} :
                                k \in writtenBatches}
            /\ fpc = "returned" =>
                  /\ Len(calls) = batchCount(n)
                  /\ writtenBatches = 1..Len(calls)
                  /\ Cardinality(index) = n
            /\ fpc = "threw" =>
                  /\ calls # <<>>
                  /\ ~calls[Len(calls)].ok
                  /\ result = <<ExternalServiceError("Pinecone",
                                   <<"Failed to upsert vectors: ">> \o Cause)>>
            /\ fpc = "upsert" => writtenBatches = 1..Len(calls)

C19_BatchStep ==
    (given # <<>> /\ given.fn = "upsertVectors") =>
        /\ Len(calls') <= Len(calls) + 1
        /\ SubSeq(calls', 1, Len(calls)) = calls
        /\ index \subseteq index'
        /\ fpc \in {"returned", "threw"} => calls' = calls

\* C19: upsertVectors sends the records in consecutive batches of at most 100,
\* in input order, each record in exactly one batch (ceil(n/100) requests for n
\* records, none for no record), one batch at a time; a failing batch raises an
\* ExternalServiceError and no later batch is sent, while the earlier batches
\* stay written.
C19_ConsecutiveBatches == []C19_Batches /\ [][C19_BatchStep]_vars

\* the third batch of 201 records fails after two batches were written
C19_Witness ==
    /\ given # <<>>
    /\ given.fn = "upsertVectors"
    /\ fpc = "threw"
    /\ Len(calls) = 3
    /\ Len(calls[1].arg) = UPSERT_BATCH_SIZE
    /\ Len(calls[3].arg) = 1
    /\ Cardinality(index) = 2 * UPSERT_BATCH_SIZE

\* the values of topK that the schema lets through
AcceptedTopKs == {jsonUndefined} \cup {jsonNumber(10 * k) : k \in 1..10}

\* C21: validateAskRequest accepts a body if and only if question is a string
\* of 1..1000 characters and topK is absent or an integer in 1..10; without
\* topK the validated result has topK = 3, otherwise the topK supplied; every
\* other body makes it throw.
C21_AskRequestAccepted ==
    (given # <<>> /\ given.fn = "validateAskRequest" /\ fpc # "call") =>
        LET body == given.body
            accepted ==
                /\ body.type = "object"
                /\ body.question.type = "string"
                /\ Len(body.question.str) \in 1..1000
                /\ body.topK \in AcceptedTopKs
        IN  /\ fpc = "returned" <=> accepted
            /\ fpc = "threw" <=> ~accepted
            /\ fpc = "returned" =>
                  /\ result[1].question = body.question.str
                  /\ body.topK = jsonUndefined => result[1].topK = 3
                  /\ body.topK # jsonUndefined =>
                        jsonNumber(10 * result[1].topK) = body.topK

\* a question of 1000 characters without topK is accepted with topK = 3
C21_Witness ==
    /\ given # <<>>
    /\ given.fn = "validateAskRequest"
    /\ fpc = "returned"
    /\ given.body.topK = jsonUndefined
    /\ Len(given.body.question.str) = 1000
    /\ result[1].topK = 3

Letters ==
    {"a", "b", "c", "d", "e", "f", "g", "h", "i", "j", "k", "l", "m",
     "n", "o", "p", "q", "r", "s", "t", "u", "v", "w", "x", "y", "z",
     "A", "B", "C", "D", "E", "F", "G", "H", "I", "J", "K", "L", "M",
     "N", "O", "P", "Q", "R", "S", "T", "U", "V", "W", "X", "Y", "Z"}

\* the characters a string is made of
charactersOf(t) == {t[i] : i \in 1..Len(t)}

\* an item that is a document as the claim describes one
wellFormedDocument(d) ==
    /\ d.type = "object"
    /\ {d.id.type, d.title.type, d.content.type} = {"string"}
    /\ Len(d.id.str) \in 1..100
    /\ charactersOf(d.id.str) \subseteq
          Letters \cup charactersOf(Digits) \cup {"-", "_"}
    /\ Len(d.title.str) \in 1..200
    /\ Len(d.content.str) \in 1..50000

\* C22: validateIngestRequest accepts a body if and only if documents is an
\* array of 1..10 items and every item has an id of 1..100 characters drawn
\* only from letters, digits, dash and underscore, a title of 1..200 characters
\* and a content of 1..50000 characters; every other body makes it throw.
C22_IngestRequestAccepted ==
    (given # <<>> /\ given.fn = "validateIngestRequest" /\ fpc # "call") =>
        LET body == given.body
            items == body.documents.items
            accepted ==
                /\ body.type = "object"
                /\ body.documents.type = "array"
                /\ Len(items) \in 1..10
                /\ \A k \in 1..Len(items) : wellFormedDocument(items[k])
        IN  /\ fpc = "returned" <=> accepted
            /\ fpc = "threw" <=> ~accepted
            /\ fpc = "returned" =>
                  /\ Len(result[1].documents) = Len(items)
                  /\ \A k \in 1..Len(items) :
                        /\ result[1].documents[k].id = items[k].id.str
                        /\ result[1].documents[k].title = items[k].title.str
                        /\ result[1].documents[k].content = items[k].content.str

\* ten documents, the last with a content of 50000 characters, are accepted
C22_Witness ==
    /\ given # <<>>
    /\ given.fn = "validateIngestRequest"
    /\ fpc = "returned"
    /\ Len(given.body.documents.items) = 10
    /\ Len(given.body.documents.items[10].content.str) = 50000
    /\ Len(result[1].documents) = 10

-----------------------------------------------------------------------------
(* The cached Pinecone client (services/pinecone): calls made one after the
   other in one process *)

\* !process.env.X: the variable is absent or empty
unset(v) == v = <<>> \/ v[1] = <<>>

\* getClient(): r.threw, or the client with the cache and the count after it
getClient(client, e, b) ==
    IF client # <<>>
    THEN [threw |-> FALSE, err |-> <<>>, client |-> client, built |-> b]
    ELSE IF unset(e.apiKey)
    THEN [threw |-> TRUE,
          err |-> <<ExternalServiceError("Pinecone",
                      <<"PINECONE_API_KEY environment variable is not set">>)>>,
          client |-> client, built |-> b]
    ELSE [threw |-> FALSE, err |-> <<>>,
          client |-> <<[apiKey |-> e.apiKey[1]]>>,
          built |-> [b EXCEPT !.clients = @ + 1]]

\* getIndex() building a handle whenever it is called
getIndexUncached(client, handle, e, b) ==
    IF unset(e.index)
    THEN [threw |-> TRUE,
          err |-> <<ExternalServiceError("Pinecone",
                      <<"PINECONE_INDEX environment variable is not set">>)>>,
          client |-> client, handle |-> handle, built |-> b]
    ELSE LET c == getClient(client, e, b) IN
         IF c.threw
         THEN [threw |-> TRUE, err |-> c.err, client |-> client, handle |-> handle,
               built |-> b]
         ELSE [threw |-> FALSE, err |-> <<>>, client |-> c.client,
               handle |-> <<[client |-> c.client[1], name |-> e.index[1]]>>,
               built |-> [c.built EXCEPT !.indexes = @ + 1]]

\* getIndex(): r.threw, or the handle with the caches and the counts after it
getIndex(client, handle, e, b) ==
    IF handle # <<>>
    THEN [threw |-> FALSE, err |-> <<>>, client |-> client, handle |-> handle,
          built |-> b]
    ELSE IF unset(e.index)
    THEN [threw |-> TRUE,
          err |-> <<ExternalServiceError("Pinecone",
                      <<"PINECONE_INDEX environment variable is not set">>)>>,
          client |-> client, handle |-> handle, built |-> b]
    ELSE LET c == getClient(client, e, b) IN
         IF c.threw
         THEN [threw |-> TRUE, err |-> c.err, client |-> client, handle |-> handle,
               built |-> b]
         ELSE [threw |-> FALSE, err |-> <<>>, client |-> c.client,
               handle |-> <<[client |-> c.client[1], name |-> e.index[1]]>>,
               built |-> [c.built EXCEPT !.indexes = @ + 1]]

\* index.deleteMany(ids)
deleteIds(idx, ids) == {r \in idx : \A i \in 1..Len(ids) : r.id # ids[i]}

EnvValues == {<<>>, << <<>> >>, << <<"k">> >>}
Envs == [apiKey : EnvValues, index : EnvValues]

\* the calls of the gateway, with and without something to send
ClientCalls ==
    {[fn |-> "upsertVectors", vectors |-> vs] : vs \in {<<>>, <<vectorAt(1)>>}}
        \cup {[fn |-> "deleteByIds", vectors |-> vs] : vs \in {<<>>, <<vectorAt(1)>>}}
        \cup {[fn |-> f, vectors |-> <<>>] :
                f \in {"queryVectors", "deleteByDocId", "healthCheck"}}

\* the functions that return before getIndex() when given nothing
returnsAtOnce(call) ==
    call.fn \in {"upsertVectors", "deleteByIds"} /\ Len(call.vectors) = 0

\* the text each function puts in front of the message of a caught error
failedTo(fn) ==
    CASE fn = "upsertVectors" -> <<"Failed to upsert vectors: ">>
      [] fn = "queryVectors" -> <<"Failed to query vectors: ">>
      [] fn = "deleteByIds" -> <<"Failed to delete vectors: ">>

\* how a function ends when its try block throws an error with this message
onError(fn, message) ==
    CASE fn = "deleteByDocId" -> [fpc |-> "returned", result |-> <<>>]
      [] fn = "healthCheck" -> [fpc |-> "returned", result |-> <<FALSE>>]
      [] OTHER -> [fpc |-> "threw",
                   result |-> <<ExternalServiceError("Pinecone",
                                   failedTo(fn) \o message)>>]

\* one call of the gateway from start to end; the request it makes settles
\* with `outcome`
ClientCall(call, outcome) ==
    /\ given' = call
    /\ IF returnsAtOnce(call)
       THEN /\ fpc' = "returned"
            /\ result' = <<>>
            /\ UNCHANGED <<pineconeClient, pineconeIndex, built, index>>
       ELSE LET g == getIndex(pineconeClient, pineconeIndex, env, built) IN
            /\ pineconeClient' = g.client
            /\ pineconeIndex' = g.handle
            /\ built' = g.built
            /\ IF g.threw
               THEN /\ fpc' = onError(call.fn, g.err[1].message).fpc
                    /\ result' = onError(call.fn, g.err[1].message).result
                    /\ UNCHANGED index
               ELSE IF ~outcome.ok
               THEN /\ fpc' = onError(call.fn, Cause).fpc
                    /\ result' = onError(call.fn, Cause).result
                    /\ UNCHANGED index
               ELSE /\ fpc' = "returned"
                    /\ index' =
                          CASE call.fn = "upsertVectors" ->
                                  upsert(index, batchAt(call.vectors, 0))
                            [] call.fn = "deleteByDocId" ->
                                  deleteMany(index, <<"d", "1">>)
                            [] call.fn = "deleteByIds" ->
                                  deleteIds(index, [i \in 1..Len(call.vectors) |->
                                                       call.vectors[i].id])
                            [] OTHER -> index
                    /\ result' =
                          CASE call.fn = "queryVectors" ->
                                  <<queryVectors(
                                      [matches |-> IF outcome.matches
                                                   THEN <<rawMatches(index, outcome.sel)>>
                                                   ELSE <<>>])>>
                            [] call.fn = "healthCheck" -> <<TRUE>>
                            [] OTHER -> <<>>
    /\ UNCHANGED <<env, runs, chunkVars, hpc, invoked, ingestVars, askVars, calls,
                   response, previous>>

\* the environment of the process changes between two calls
SetEnv(e) ==
    /\ e # env
    /\ env' = e
    /\ UNCHANGED <<fpc, given, result, pineconeClient, pineconeIndex, built,
                   runs, chunkVars, handlerVars>>

ClientInit ==
    /\ ColdStart
    /\ ident \in Idents
    /\ content = <<>>
    /\ options = NoOptions
    /\ cpc = "call"
    /\ chunks = <<>>
    /\ fpc = "none"
    /\ given = <<>>
    /\ result = <<>>
    /\ pineconeClient = <<>>
    /\ pineconeIndex = <<>>
    /\ env \in Envs
    /\ built = [clients |-> 0, indexes |-> 0]
    /\ runs = <<>>

ClientNext ==
    \/ \E call \in ClientCalls : \E outcome \in QueryOutcomes(index, 1) :
          ClientCall(call, outcome)
    \/ \E e \in Envs : SetEnv(e)

ClientSpec == ClientInit /\ [][ClientNext]_vars

-----------------------------------------------------------------------------
(* Claims about the cached client, checked under ClientSpec *)

misconfigured == unset(env.apiKey) \/ unset(env.index)

uninitialised(client, handle) == client = <<>> /\ handle = <<>>

\* the result is an ExternalServiceError of the Pinecone gateway
pineconeError(r) ==
    /\ r # <<>>
    /\ r[1].statusCode = 502
    /\ r[1].message[1] = "Pinecone"

\* at most one client and one handle were ever constructed, and the handle is
\* one of the cached client
C23_BuiltOnce ==
    /\ built.clients <= 1
    /\ built.indexes <= 1
    /\ pineconeIndex = <<>> => (pineconeClient = <<>> /\ built.indexes = 0)
    /\ pineconeIndex # <<>> =>
          (pineconeClient # <<>> /\ pineconeIndex[1].client = pineconeClient[1])

\* a call finding the handle cached uses it and constructs nothing
C23_Reuse ==
    \A call \in ClientCalls : \A outcome \in QueryOutcomes(index, 1) :
        (ClientCall(call, outcome) /\ pineconeIndex # <<>>) =>
            /\ pineconeIndex' = pineconeIndex
            /\ pineconeClient' = pineconeClient
            /\ built' = built

\* the claim as stated: every call made while a variable is unset fails with
\* an ExternalServiceError and leaves the cache uninitialised
C23_EveryCallFails ==
    \A call \in ClientCalls : \A outcome \in QueryOutcomes(index, 1) :
        (ClientCall(call, outcome) /\ misconfigured) =>
            /\ fpc' = "threw"
            /\ pineconeError(result')
            /\ uninitialised(pineconeClient', pineconeIndex')

C23_CachedOnceEveryCallFails ==
    []C23_BuiltOnce /\ [][C23_Reuse]_vars /\ [][C23_EveryCallFails]_vars

\* a call that needs the handle and finds none: with a variable unset it
\* constructs nothing and ends the way its function ends on an error; with
\* both set it constructs the client and the handle
C23_FirstUse ==
    \A call \in ClientCalls : \A outcome \in QueryOutcomes(index, 1) :
        (ClientCall(call, outcome) /\ ~returnsAtOnce(call) /\ pineconeIndex = <<>>) =>
            IF misconfigured
            THEN /\ uninitialised(pineconeClient', pineconeIndex')
                 /\ built' = built
                 /\ index' = index
                 /\ call.fn \in {"upsertVectors", "queryVectors", "deleteByIds"} =>
                       (fpc' = "threw" /\ pineconeError(result'))
                 /\ call.fn = "deleteByDocId" => (fpc' = "returned" /\ result' = <<>>)
                 /\ call.fn = "healthCheck" => (fpc' = "returned" /\ result' = <<FALSE>>)
            ELSE /\ pineconeClient' = <<[apiKey |-> env.apiKey[1]]>>
                 /\ pineconeIndex' = <<[client |-> pineconeClient'[1],
                                        name |-> env.index[1]]>>
                 /\ built' = [clients |-> 1, indexes |-> 1]

\* C23: across any sequence of upsert, query, delete and health-check calls in
\* one process the Pinecone client and the index handle are each constructed at
\* most once and then reused by every later call; a call that needs the handle
\* while none is cached and PINECONE_API_KEY or PINECONE_INDEX is unset leaves
\* the cache uninitialised, so that a later call initialises it; upsert, query
\* and delete-by-ids then fail with an ExternalServiceError, delete-by-docId
\* returns normally and the health check returns false.
C23_CachedOnce ==
    []C23_BuiltOnce /\ [][C23_Reuse]_vars /\ [][C23_FirstUse]_vars

\* the one client and the one handle, built by an earlier call, serve a health
\* check made while a variable is unset
C23_Witness ==
    /\ built = [clients |-> 1, indexes |-> 1]
    /\ pineconeIndex # <<>>
    /\ misconfigured
    /\ fpc = "returned"
    /\ given.fn = "healthCheck"
    /\ result = <<TRUE>>

-----------------------------------------------------------------------------
(* Concurrent ingest invocations: each runs the ingest handler in a container
   of its own, against the one index, on a request of one document *)

\* two versions of one document, of two chunks and of one
ConcurrentDocs ==
    <<[id |-> <<"d", "1">>, title |-> <<"T">>, content |-> TwoChunkContent],
      [id |-> <<"d", "1">>, title |-> <<"T">>, content |-> OneChunkContent]>>

\* lines 11-30 for a valid request of the one document doc: the invocation is
\* suspended at deleteByDocId
invocationOf(doc) ==
    [pc |-> "ingest_delete", doc |-> doc, docChunks |-> <<>>, embeddings |-> <<>>,
     upserted |-> 0, response |-> NoResponse]

\* the invocation returns: lines 61-67 or the catch block
finished(run, r) == [run EXCEPT !.pc = "responded", !.response = r]

\* deleteByDocId of invocation p settles, then lines 32-43
RunDelete(p, ok) ==
    /\ runs[p].pc = "ingest_delete"
    /\ LET run == runs[p]
           r == chunkDocument(run.doc.id, run.doc.title, run.doc.content, NoOptions)
       IN  /\ r.terminates
           /\ index' = IF ok THEN deleteMany(index, run.doc.id) ELSE index
           /\ runs' = [runs EXCEPT ![p] =
                 IF Len(r.chunks) = 0
                 THEN finished(run, success([ingestedDocuments |-> 1,
                                             ingestedChunks |-> 0]))
                 ELSE [run EXCEPT !.pc = "ingest_embed", !.docChunks = r.chunks]]
    /\ UNCHANGED <<fpc, given, result, clientVars, chunkVars, hpc, invoked,
                   ingestVars, askVars, calls, response, previous>>

\* one featureExtraction request of invocation p settles
RunEmbed(p, ok) ==
    /\ runs[p].pc = "ingest_embed"
    /\ LET run == runs[p]
           i == Len(run.embeddings) + 1
       IN  runs' = [runs EXCEPT ![p] =
               IF ok
               THEN [run EXCEPT
                        !.embeddings = Append(@, embeddingOf(run.docChunks[i].text)),
                        !.pc = IF i = Len(run.docChunks) THEN "ingest_upsert"
                               ELSE "ingest_embed"]
               ELSE finished(run, operationalError(ExternalServiceError("HuggingFace",
                                     <<"Failed to generate embeddings: ">> \o Cause)))]
    /\ UNCHANGED <<fpc, given, result, clientVars, chunkVars, handlerVars>>

\* one index.upsert(batch) of invocation p settles, then lines 56-67
RunUpsert(p, ok) ==
    /\ runs[p].pc = "ingest_upsert"
    /\ LET run == runs[p]
           vectors == vectorsOf(run.docChunks, run.embeddings)
           batch == batchAt(vectors, run.upserted)
       IN  /\ index' = IF ok THEN upsert(index, batch) ELSE index
           /\ runs' = [runs EXCEPT ![p] =
                 IF ~ok
                 THEN finished(run, operationalError(ExternalServiceError("Pinecone",
                                       <<"Failed to upsert vectors: ">> \o Cause)))
                 ELSE IF run.upserted + UPSERT_BATCH_SIZE < Len(vectors)
                 THEN [run EXCEPT !.upserted = @ + UPSERT_BATCH_SIZE]
                 ELSE finished(run, success([ingestedDocuments |-> 1,
                                             ingestedChunks |-> Len(run.docChunks)]))]
    /\ UNCHANGED <<fpc, given, result, clientVars, chunkVars, hpc, invoked,
                   ingestVars, askVars, calls, response, previous>>

\* the index holds nothing or an earlier version of the document
ConcurrentInit ==
    /\ ColdStart
    /\ ident \in Idents
    /\ content = <<>>
    /\ options = NoOptions
    /\ cpc = "call"
    /\ chunks = <<>>
    /\ fpc = "none"
    /\ given = <<>>
    /\ result = <<>>
    /\ ColdClient
    /\ runs \in {<<invocationOf(ConcurrentDocs[a]), invocationOf(ConcurrentDocs[b])>> :
                    a, b \in 1..Len(ConcurrentDocs)}

ConcurrentNext ==
    \E p \in 1..Len(runs) : \E ok \in BOOLEAN :
        \/ RunDelete(p, ok)
        \/ RunEmbed(p, ok)
        \/ RunUpsert(p, ok)

ConcurrentSpec == ConcurrentInit /\ [][ConcurrentNext]_vars

-----------------------------------------------------------------------------
(* Claims about concurrent invocations, checked under ConcurrentSpec *)

\* both invocations have returned success
bothSucceeded ==
    \A p \in 1..Len(runs) :
        runs[p].pc = "responded" /\ runs[p].response.statusCode = 200

\* C24: when two ingest requests for the same document id with different
\* contents run concurrently and both return success, then under every
\* interleaving of their delete, embedding and upsert steps the index finally
\* holds for that id exactly the chunk set of one of the two contents, never a
\* mixture of records of both or an empty set.
C24_ConcurrentIngestIsolated ==
    (/\ Len(runs) = 2
     /\ bothSucceeded
     /\ runs[1].doc.id = runs[2].doc.id
     /\ runs[1].doc.content # runs[2].doc.content)
        => /\ storedFor(index, runs[1].doc.id)
                \in {recordsFor(runs[1].doc), recordsFor(runs[2].doc)}
           /\ storedFor(index, runs[1].doc.id) # {}

-----------------------------------------------------------------------------
(* Further claims about chunkDocument, checked under ChunkSpec *)

\* a string without its whitespace
withoutWhitespace(t) == SelectSeq(t, LAMBDA c : c \notin Whitespace)

\* the texts of the chunks one after the other
RECURSIVE concatenated(_)
concatenated(cs) ==
    IF cs = <<>> THEN <<>> ELSE Head(cs).text \o concatenated(Tail(cs))

\* C25: for every content, every maxChunkSize >= 1 and every minChunkSize, the
\* texts of the returned chunks, concatenated in order and with all whitespace
\* deleted, are exactly the content with all whitespace deleted.
C25_NoTextLost ==
    (cpc = "returned" /\ maxSizeArg >= 1) =>
        withoutWhitespace(concatenated(chunks)) = withoutWhitespace(content)

\* a hard split gave a slice of whitespace only, and the call returned
\* several chunks
C25_Witness ==
    /\ cpc = "returned"
    /\ maxSizeArg >= 1
    /\ \E n \in 1..Len(rawOfCall) : rawOfCall[n] = <<>>
    /\ Len(chunks) >= 2
    /\ withoutWhitespace(content) # content

\* C26: for every content, every maxChunkSize >= 1 and every minChunkSize, no
\* returned chunk has an empty text, even when a hard-split slice of an
\* over-long sentence is all whitespace and trims to the empty string.
C26_NoEmptyChunk ==
    (cpc = "returned" /\ maxSizeArg >= 1) =>
        \A n \in 1..Len(chunks) : chunks[n].text # <<>>

\* with minChunkSize 0 nothing is merged, and the empty slice of the hard
\* split is not among the chunks returned
C26_Witness ==
    /\ cpc = "returned"
    /\ maxSizeArg >= 1
    /\ minSizeArg = 0
    /\ \E n \in 1..Len(rawOfCall) : rawOfCall[n] = <<>>
    /\ Len(chunks) = Len(rawOfCall) - Cardinality({n \in 1..Len(rawOfCall) : rawOfCall[n] = <<>>})

-----------------------------------------------------------------------------
(* Further claims about the ask and ingest handlers, checked under Spec *)

\* the positions of a reply whose match has metadata and a numeric score
complete(raw) == {j \in 1..Len(raw) : raw[j].metadata # <<>> /\ raw[j].score # <<>>}

\* s is what the metadata value v is returned as
returnedAs(v, s) ==
    /\ v.type = "string" => s = v.str
    /\ v.type = "undefined" => s = <<>>
    /\ v = jsonNumber(70) => s = <<"7">>

C28_QueryStep ==
    (hpc = "ask_query" /\ results' # <<>>) =>
        LET raw == IF results'[1].matches = <<>> THEN <<>> ELSE results'[1].matches[1]
            ms == matches'[1]
        IN  /\ Len(ms) = Cardinality(complete(raw))
            /\ Len(ms) <= Len(raw)
            /\ \A i \in 1..Len(ms) :
                  LET j == kth(complete(raw), i) IN
                  /\ ms[i].id = raw[j].id
                  /\ ms[i].score = raw[j].score[1]
                  /\ returnedAs(raw[j].metadata[1].docId, ms[i].metadata.docId)
                  /\ returnedAs(raw[j].metadata[1].title, ms[i].metadata.title)
                  /\ returnedAs(raw[j].metadata[1].chunkText, ms[i].metadata.chunkText)
            /\ complete(raw) = {} =>
                  /\ hpc' = "responded"
                  /\ response' = noMatchesResponse
                  /\ \A n \in 1..Len(calls') : calls'[n].op # "chatCompletion"

C28_NoGenerationWithoutMatch ==
    (invoked = "ask" /\ matches = << <<>> >>) =>
        \A n \in 1..Len(calls) : calls[n].op # "chatCompletion"

\* C28: queryVectors returns, in the order of the index's reply, exactly the
\* matches that have metadata and a numeric score, their docId, title and
\* chunkText as strings (an absent field as the empty string), hence never
\* more matches than the index gave; when no match of the reply has both, the
\* ask handler answers on its zero-match path without a generation request
C28_QueryNormalised == []C28_NoGenerationWithoutMatch /\ [][C28_QueryStep]_vars

\* of three matches in the reply the query returned two, one with the metadata as stored and one
\* whose absent title became the empty string and whose numeric docId "7"
C28_Witness ==
    /\ invoked = "ask"
    /\ hpc = "ask_generate"
    /\ Len(results[1].matches[1]) = 3
    /\ Len(matches[1]) = 2
    /\ matches[1][1].metadata.title # <<>>
    /\ matches[1][2].metadata = [docId |-> <<"7">>, title |-> <<>>, chunkText |-> <<>>]
    /\ Cardinality(index) >= 3

\* C29: every ask response with status 200 carries a non-empty answer string,
\* whatever text the generation service returned, the empty string and a
\* whitespace-only string included
C29_AnswerNonEmpty ==
    (invoked = "ask" /\ hpc = "responded" /\ response.statusCode = 200) =>
        response.body.answer # <<>>

\* the delete made for document d of the request succeeded
deleted(d) ==
    \E n \in 1..Len(calls) :
        calls[n].op = "deleteMany" /\ calls[n].doc = d /\ calls[n].ok

\* an embedding request made for document d of the request failed
embeddingFailed(d) ==
    \E n \in 1..Len(calls) :
        calls[n].op = "featureExtraction" /\ calls[n].doc = d /\ ~calls[n].ok

\* the index holds no record of the document with this id
noRecordOf(id) ==
    \A r \in index : r.metadata.docId # id /\ r.id \notin idsOfDoc(index, id)

\* a later document of the request has the id of document d and content
\* that is not whitespace only
supersededLater(d) ==
    \E e \in (d + 1)..Len(documents) :
        documents[e].id = documents[d].id /\ ~isBlank(documents[e].content)

\* C30 as stated: when the delete for a document succeeded and a later
\* embedding request for it failed, the index holds no record of that
\* document when the error response is returned; likewise, with a 200
\* response, when the document's content is whitespace only
C30_NoRecordLeft ==
    (invoked = "ingest" /\ hpc = "responded") =>
        \A d \in 1..Len(documents) :
            /\ (deleted(d) /\ embeddingFailed(d)) =>
                  /\ response.statusCode = 502
                  /\ noRecordOf(documents[d].id)
            /\ (deleted(d) /\ isBlank(documents[d].content)
                    /\ response.statusCode = 200) =>
                  noRecordOf(documents[d].id)

\* C30, amended: when the delete for a document succeeded and a later
\* embedding request for it failed, the index holds no record of that
\* document when the error response is returned; likewise, with a 200
\* response, when the document's content is whitespace only, unless a later
\* document of the same request has the same id and content that is not
\* whitespace only
C30_NoRecordLeftUnlessSuperseded ==
    (invoked = "ingest" /\ hpc = "responded") =>
        \A d \in 1..Len(documents) :
            /\ (deleted(d) /\ embeddingFailed(d)) =>
                  /\ response.statusCode = 502
                  /\ noRecordOf(documents[d].id)
            /\ (deleted(d) /\ isBlank(documents[d].content)
                    /\ response.statusCode = 200 /\ ~supersededLater(d)) =>
                  noRecordOf(documents[d].id)

\* the second embedding request of a document failed after its delete had
\* removed the version an earlier invocation indexed
C30_Witness ==
    /\ invoked = "ingest"
    /\ hpc = "responded"
    /\ response.statusCode = 502
    /\ previous # <<>>
    /\ previous[1].ids # {}
    /\ previous[1].doc.id = documents[docIx].id
    /\ deleted(docIx)
    /\ Len(embedRequests(docIx)) = 2
    /\ embeddingFailed(docIx)
    /\ noRecordOf(documents[docIx].id)

====
